---------------------------- MODULE Spec2Model ----------------------------
(***************************************************************************)
(* Model of CProcessInfo (xbmc/cores/VideoPlayer/Process/ProcessInfo.cpp), *)
(* the per-session telemetry aggregator, and the data cache it mirrors to. *)
(*                                                                         *)
(* Every method of the class is written down as the sequence of its        *)
(* statements (an instruction list, one instruction per source statement). *)
(* One interpreter, Exec, gives each statement its meaning.  A call runs   *)
(* its list to the end in one step in the sequential specifications, and   *)
(* one statement at a time, interleaved with the other threads, in the     *)
(* concurrent ones.                                                        *)
(*                                                                         *)
(* Values.  A scalar member holds a natural number; 0 stands for the value *)
(* ResetVideoCodecInfo / ResetAudioCodecInfo assign to it ("unknown", 0,   *)
(* false, HDR_TYPE_NONE, AVCOL_*_UNSPECIFIED, {} ...), 1 for another value.*)
(* The data cache is external: it is modelled as the record of the last    *)
(* argument tuple each of its setters received from the aggregator.        *)
(***************************************************************************)
EXTENDS Naturals, Sequences, FiniteSets, TLC

VARIABLES
  m,               \* scalar members of CProcessInfo: member name -> value
  m_deintMethods,  \* std::list<EINTERLACEMETHOD> m_deintMethods
  m_renderInfo,    \* m_renderInfo.m_deintMethods
  m_dataCache,     \* CDataCacheCore* : 0 is nullptr, otherwise a cache id
  cache,           \* cache id -> cache setter name -> last arguments received
  locks,           \* critical section name -> [owner, depth]
  thr,             \* thread -> the call it is executing
  last,            \* the call that completed last
  hist,            \* what the run has done so far (see HistInit)
  focus,           \* the field group whose accessors this run exercises
  m_maxTempo,      \* CAdvancedSettings::m_maxTempo, in hundredths
  tempoIn,         \* <<tempo>> of the IsTempoAllowed call made last under
                   \* the current configuration, <<>> when there is none
  tempoOut         \* what that call returned

vars == <<m, m_deintMethods, m_renderInfo, m_dataCache, cache, locks, thr,
          last, hist, focus, m_maxTempo, tempoIn, tempoOut>>

-----------------------------------------------------------------------------
(* Bounds of the exploration *)

\* length of a deinterlace-method list passed in by a caller or a renderer
MaxListLen == 2
\* largest tempo tried, in steps of 0.05
MaxTempoSteps == 40
\* length of a list passed in by one of two threads calling at once
MaxRaceListLen == 1

Values == {0, 1}
Caches == {1, 2}
Threads == {"t1", "t2"}
NoThread == "none"

-----------------------------------------------------------------------------
(* Operands and instructions *)

Arg(i)   == [s |-> "arg",   n |-> "", i |-> i]
Mem(n)   == [s |-> "mem",   n |-> n,  i |-> 0]
Const(c) == [s |-> "const", n |-> "", i |-> c]
Loc(n)   == [s |-> "loc",   n |-> n,  i |-> 0]

\* std::unique_lock<CCriticalSection> lock(section);
Lock(section)   == [k |-> "lock", a |-> section, x |-> <<>>, j |-> 0]
\* the end of the scope of that unique_lock
Unlock(section) == [k |-> "unlock", a |-> section, x |-> <<>>, j |-> 0]
\* member = operand;
Store(member, operand) == [k |-> "store", a |-> member, x |-> <<operand>>, j |-> 0]
\* if (m_dataCache) { the next j statements }
IfDataCache(j) == [k |-> "ifcache", a |-> "", x |-> <<>>, j |-> j]
\* m_dataCache->setter(operands);
CacheCall(setter, operands) == [k |-> "cachecall", a |-> setter, x |-> operands, j |-> 0]
\* m_dataCache = operand;
BindCache(operand) == [k |-> "bind", a |-> "", x |-> <<operand>>, j |-> 0]
\* bool local = (member != operand);
SetLocalNe(local, member, operand) ==
  [k |-> "setne", a |-> local, x |-> <<Mem(member), operand>>, j |-> 0]
\* if (local) { the next j statements }
IfLocal(local, j) == [k |-> "iflocal", a |-> local, x |-> <<>>, j |-> j]
\* return operands;   (the lock is released by the Unlock that follows)
Return(operands) == [k |-> "return", a |-> "", x |-> operands, j |-> 0]
\* the i-th reference parameter = operand;
Out(i, operand) == [k |-> "out", a |-> "", x |-> <<operand>>, j |-> i]
\* m_deintMethods = methods;
DeintAssign == [k |-> "dassign", a |-> "", x |-> <<>>, j |-> 0]
\* m_deintMethods.clear();
DeintClear == [k |-> "dclear", a |-> "", x |-> <<>>, j |-> 0]
\* m_deintMethods.push_back(operand);
DeintPushBack(operand) == [k |-> "dpushback", a |-> "", x |-> <<operand>>, j |-> 0]
\* m_deintMethods.push_front(operand);
DeintPushFront(operand) == [k |-> "dpushfront", a |-> "", x |-> <<operand>>, j |-> 0]
\* std::find(m_deintMethods.begin(), m_deintMethods.end(), operand) != end
Find(local, operand) == [k |-> "find", a |-> local, x |-> <<operand>>, j |-> 0]
\* m_renderInfo = info;
RenderInfoAssign == [k |-> "rassign", a |-> "", x |-> <<>>, j |-> 0]
\* for (auto &deint : m_renderInfo.m_deintMethods): the iterator at begin()
ForBegin(it) == [k |-> "forbegin", a |-> it, x |-> <<>>, j |-> 0]
\* the loop test: at end(), leave the loop, whose body and ForNext are the
\* next j statements
ForTest(it, j) == [k |-> "fortest", a |-> it, x |-> <<>>, j |-> j]
\* ++iterator and back to the loop test, j statements up
ForNext(it, j) == [k |-> "fornext", a |-> it, x |-> <<>>, j |-> j]
\* std::list<EINTERLACEMETHOD> methods; methods.push_back(operand); ...
MakeList(operands) == [k |-> "mklist", a |-> "", x |-> operands, j |-> 0]
\* the element the iterator points at
Elem(it) == [s |-> "elem", n |-> it, i |-> 0]
\* the value the call just made returned
Ret == [s |-> "ret", n |-> "", i |-> 0]
\* if (!operand) { the next j statements }
IfNot(operand, j) == [k |-> "ifnot", a |-> "", x |-> <<operand>>, j |-> j]
\* if (operand.empty()) { the next j statements }   (0 is the empty vector)
IfEmpty(operand, j) == [k |-> "ifnot", a |-> "", x |-> <<operand>>, j |-> j]
\* control leaves the block: the next j statements are not executed
Skip(j) == [k |-> "skip", a |-> "", x |-> <<>>, j |-> j]
\* bool local = flag.test_and_set();   (std::atomic_flag)
TestAndSet(local, flag) == [k |-> "tas", a |-> local, x |-> <<Mem(flag)>>, j |-> 0]
\* flag.clear();
Clear(flag) == [k |-> "clear", a |-> flag, x |-> <<>>, j |-> 0]
\* the end of a while body: back to the loop test, j statements up
Again(j) == [k |-> "again", a |-> "", x |-> <<>>, j |-> j]
\* map.clear();
MapClear(map) == [k |-> "mclear", a |-> map, x |-> <<>>, j |-> 0]
\* map[key] = value;
MapPut(map, key, value) == [k |-> "mput", a |-> map, x |-> <<key, value>>, j |-> 0]
\* for (auto &info : map): the loop test; at end(), leave the loop, whose body
\* and ForNext are the next j statements
MapTest(it, map, j) == [k |-> "maptest", a |-> it, x |-> <<Mem(map)>>, j |-> j]
\* local = info.second();   (a factory is the value it returns: 0 is nullptr)
MapCall(local, it, map) ==
  [k |-> "mapcall", a |-> local, x |-> <<Loc(it), Mem(map)>>, j |-> 0]

-----------------------------------------------------------------------------
(* EINTERLACEMETHOD values the file names (the enumeration itself is declared
   outside this file; the numbers only have to differ) *)

VS_INTERLACEMETHOD_NONE == 0
VS_INTERLACEMETHOD_DEINTERLACE == 1
VS_INTERLACEMETHOD_DEINTERLACE_HALF == 2

Methods == {VS_INTERLACEMETHOD_NONE, VS_INTERLACEMETHOD_DEINTERLACE,
            VS_INTERLACEMETHOD_DEINTERLACE_HALF}

-----------------------------------------------------------------------------
(* The methods of CProcessInfo, statement by statement *)

\* Supports(method), as called with the operand o   ProcessInfo.cpp:637-646
SupportsOf(o) ==
  << Lock("m_videoCodecSection"),
     Find("found", o),
     Return(<<Loc("found")>>),
     Unlock("m_videoCodecSection") >>

\* Supports(method)   ProcessInfo.cpp:637-646
Supports == SupportsOf(Arg(1))

\* ResetVideoCodecInfo()   ProcessInfo.cpp:68-134
ResetVideoCodecInfo ==
  << Lock("m_videoCodecSection"),
     Store("m_videoPts", Const(0)),
     Store("m_videoIsHWDecoder", Const(0)),
     Store("m_videoDecoderName", Const(0)),
     Store("m_videoDeintMethod", Const(0)),
     Store("m_videoPixelFormat", Const(0)),
     Store("m_videoStereoMode", Const(0)),
     Store("m_videoWidth", Const(0)),
     Store("m_videoHeight", Const(0)),
     Store("m_videoFPS", Const(0)),
     Store("m_videoDAR", Const(0)),
     Store("m_videoBitDepth", Const(0)),
     Store("m_videoHdrType", Const(0)),
     Store("m_videoSourceHdrType", Const(0)),
     Store("m_videoSourceAdditionalHdrType", Const(0)),
     Store("m_videoColorSpace", Const(0)),
     Store("m_videoColorRange", Const(0)),
     Store("m_videoColorPrimaries", Const(0)),
     Store("m_videoColorTransferCharacteristic", Const(0)),
     Store("m_videoDoViFrameMetadata", Const(0)),
     Store("m_videoDoViStreamInfo", Const(0)),
     Store("m_videoSourceDoViStreamInfo", Const(0)),
     Store("m_videoDoViCodecFourCC", Const(0)),
     Store("m_videoHDRStaticMetadataInfo", Const(0)),
     Store("m_videoVS10Mode", Const(0)),
     Store("m_videoLiveBitRate", Const(0)),
     Store("m_videoQueueLevel", Const(0)),
     Store("m_videoQueueDataLevel", Const(0)),
     Store("m_videoIsInterlaced", Const(0)),
     DeintClear,
     DeintPushBack(Const(VS_INTERLACEMETHOD_NONE)),
     Store("m_deintMethodDefault", Const(VS_INTERLACEMETHOD_NONE)),
     Store("m_stateSeeking", Const(0)),
     IfDataCache(26),
     CacheCall("SetVideoPts", <<Mem("m_videoPts")>>),
     CacheCall("SetVideoDecoderName", <<Mem("m_videoDecoderName"), Mem("m_videoIsHWDecoder")>>),
     CacheCall("SetVideoDeintMethod", <<Mem("m_videoDeintMethod")>>),
     CacheCall("SetVideoPixelFormat", <<Mem("m_videoPixelFormat")>>),
     CacheCall("SetVideoDimensions", <<Mem("m_videoWidth"), Mem("m_videoHeight")>>),
     CacheCall("SetVideoFps", <<Mem("m_videoFPS")>>),
     CacheCall("SetVideoDAR", <<Mem("m_videoDAR")>>),
     CacheCall("SetStateSeeking", <<Mem("m_stateSeeking")>>),
     CacheCall("SetVideoStereoMode", <<Mem("m_videoStereoMode")>>),
     CacheCall("SetVideoBitDepth", <<Mem("m_videoBitDepth")>>),
     CacheCall("SetVideoHdrType", <<Mem("m_videoHdrType")>>),
     CacheCall("SetVideoSourceHdrType", <<Mem("m_videoSourceHdrType")>>),
     CacheCall("SetVideoSourceAdditionalHdrType", <<Mem("m_videoSourceAdditionalHdrType")>>),
     CacheCall("SetVideoColorSpace", <<Mem("m_videoColorSpace")>>),
     CacheCall("SetVideoColorRange", <<Mem("m_videoColorRange")>>),
     CacheCall("SetVideoColorPrimaries", <<Mem("m_videoColorPrimaries")>>),
     CacheCall("SetVideoColorTransferCharacteristic", <<Mem("m_videoColorTransferCharacteristic")>>),
     CacheCall("SetVideoDoViFrameMetadata", <<Mem("m_videoDoViFrameMetadata")>>),
     CacheCall("SetVideoDoViStreamInfo", <<Mem("m_videoDoViStreamInfo")>>),
     CacheCall("SetVideoSourceDoViStreamInfo", <<Mem("m_videoSourceDoViStreamInfo")>>),
     CacheCall("SetVideoDoViCodecFourCC", <<Mem("m_videoDoViCodecFourCC")>>),
     CacheCall("SetVideoHDRStaticMetadataInfo", <<Mem("m_videoHDRStaticMetadataInfo")>>),
     CacheCall("SetVideoVS10Mode", <<Mem("m_videoVS10Mode")>>),
     CacheCall("SetVideoLiveBitRate", <<Mem("m_videoLiveBitRate")>>),
     CacheCall("SetVideoQueueLevel", <<Mem("m_videoQueueLevel")>>),
     CacheCall("SetVideoQueueDataLevel", <<Mem("m_videoQueueDataLevel")>>),
     Unlock("m_videoCodecSection") >>

\* SetDataCache that binds the cache after it has forwarded
SetDataCache_BoundLast ==
  ResetVideoCodecInfo
  \o << Store("m_renderGuiLayer", Const(0)),
        Store("m_renderVideoLayer", Const(0)),
        CacheCall("SetGuiRender", <<Mem("m_renderGuiLayer")>>),
        CacheCall("SetVideoRender", <<Mem("m_renderVideoLayer")>>),
        BindCache(Arg(1)) >>

\* SetDataCache that leaves the two render flags as they are
SetDataCache_FlagsKept ==
  << BindCache(Arg(1)) >>
  \o ResetVideoCodecInfo
  \o << CacheCall("SetGuiRender", <<Mem("m_renderGuiLayer")>>),
        CacheCall("SetVideoRender", <<Mem("m_renderVideoLayer")>>) >>

\* SetDataCache(cache)   ProcessInfo.cpp:54-63
SetDataCache ==
  << BindCache(Arg(1)) >>
  \o ResetVideoCodecInfo
  \o << Store("m_renderGuiLayer", Const(0)),
        Store("m_renderVideoLayer", Const(0)),
        CacheCall("SetGuiRender", <<Mem("m_renderGuiLayer")>>),
        CacheCall("SetVideoRender", <<Mem("m_renderVideoLayer")>>) >>

\* SetDeinterlacingMethodDefault(method), as called with the operand o
\* ProcessInfo.cpp:648-653
SetDeinterlacingMethodDefaultOf(o) ==
  << Lock("m_videoCodecSection"),
     Store("m_deintMethodDefault", o),
     Unlock("m_videoCodecSection") >>

\* SetDeinterlacingMethodDefault(method)   ProcessInfo.cpp:648-653
SetDeinterlacingMethodDefault == SetDeinterlacingMethodDefaultOf(Arg(1))

\* UpdateDeinterlacingMethods that does not add NONE
UpdateDeinterlacingMethods_NoNone ==
  << Lock("m_videoCodecSection"),
     DeintAssign,
     ForBegin("it"),
     ForTest("it", 7) >>
  \o SupportsOf(Elem("it"))
  \o << IfNot(Ret, 1),
        DeintPushBack(Elem("it")),
        ForNext("it", 7),
        Unlock("m_videoCodecSection") >>

\* UpdateDeinterlacingMethods that adds NONE at the back
UpdateDeinterlacingMethods_NoneLast ==
  << Lock("m_videoCodecSection"),
     DeintAssign,
     ForBegin("it"),
     ForTest("it", 7) >>
  \o SupportsOf(Elem("it"))
  \o << IfNot(Ret, 1),
        DeintPushBack(Elem("it")),
        ForNext("it", 7) >>
  \o SupportsOf(Const(VS_INTERLACEMETHOD_NONE))
  \o << IfNot(Ret, 1),
        DeintPushBack(Const(VS_INTERLACEMETHOD_NONE)),
        Unlock("m_videoCodecSection") >>

\* UpdateDeinterlacingMethods that appends every method the renderer reports
UpdateDeinterlacingMethods_AppendsAll ==
  << Lock("m_videoCodecSection"),
     DeintAssign,
     ForBegin("it"),
     ForTest("it", 2),
     DeintPushBack(Elem("it")),
     ForNext("it", 2) >>
  \o SupportsOf(Const(VS_INTERLACEMETHOD_NONE))
  \o << IfNot(Ret, 1),
        DeintPushFront(Const(VS_INTERLACEMETHOD_NONE)),
        Unlock("m_videoCodecSection") >>

\* UpdateDeinterlacingMethods(methods)   ProcessInfo.cpp:621-635
UpdateDeinterlacingMethods ==
  << Lock("m_videoCodecSection"),
     DeintAssign,
     ForBegin("it"),
     ForTest("it", 7) >>
  \o SupportsOf(Elem("it"))
  \o << IfNot(Ret, 1),
        DeintPushBack(Elem("it")),
        ForNext("it", 7) >>
  \o SupportsOf(Const(VS_INTERLACEMETHOD_NONE))
  \o << IfNot(Ret, 1),
        DeintPushFront(Const(VS_INTERLACEMETHOD_NONE)),
        Unlock("m_videoCodecSection") >>

\* SetSwDeinterlacingMethods()   ProcessInfo.cpp:610-619
SetSwDeinterlacingMethods ==
  << MakeList(<<Const(VS_INTERLACEMETHOD_NONE),
                Const(VS_INTERLACEMETHOD_DEINTERLACE),
                Const(VS_INTERLACEMETHOD_DEINTERLACE_HALF)>>) >>
  \o UpdateDeinterlacingMethods
  \o SetDeinterlacingMethodDefaultOf(Const(VS_INTERLACEMETHOD_DEINTERLACE))

\* UpdateRenderInfo(info)   ProcessInfo.cpp:891-902
UpdateRenderInfo ==
  << Lock("m_renderSection"),
     RenderInfoAssign,
     ForBegin("it"),
     ForTest("it", 7) >>
  \o SupportsOf(Elem("it"))
  \o << IfNot(Ret, 1),
        DeintPushBack(Elem("it")),
        ForNext("it", 7),
        Unlock("m_renderSection") >>

\* SetGuiRender that forwards the flag whether it changed or not
SetGuiRender_AlwaysForwards ==
  << Lock("m_stateSection"),
     SetLocalNe("change", "m_renderGuiLayer", Arg(1)),
     Store("m_renderGuiLayer", Arg(1)),
     Skip(0),
     IfDataCache(1),
     CacheCall("SetGuiRender", <<Arg(1)>>),
     Unlock("m_stateSection") >>

\* SetGuiRender(gui)   ProcessInfo.cpp:1077-1088
SetGuiRender ==
  << Lock("m_stateSection"),
     SetLocalNe("change", "m_renderGuiLayer", Arg(1)),
     Store("m_renderGuiLayer", Arg(1)),
     IfLocal("change", 2),
     IfDataCache(1),
     CacheCall("SetGuiRender", <<Arg(1)>>),
     Unlock("m_stateSection") >>

\* SetVideoRender(video)   ProcessInfo.cpp:1097-1108
SetVideoRender ==
  << Lock("m_stateSection"),
     SetLocalNe("change", "m_renderVideoLayer", Arg(1)),
     Store("m_renderVideoLayer", Arg(1)),
     IfLocal("change", 2),
     IfDataCache(1),
     CacheCall("SetVideoRender", <<Arg(1)>>),
     Unlock("m_stateSection") >>

\* SetVideoPts(pts)   ProcessInfo.cpp:136-144
SetVideoPts ==
  << Lock("m_videoCodecSection"),
     Store("m_videoPts", Arg(1)),
     IfDataCache(1),
     CacheCall("SetVideoPts", <<Mem("m_videoPts")>>),
     Unlock("m_videoCodecSection") >>

\* GetVideoPts()   ProcessInfo.cpp:146-151
GetVideoPts ==
  << Lock("m_videoCodecSection"),
     Return(<<Mem("m_videoPts")>>),
     Unlock("m_videoCodecSection") >>

\* SetVideoDecoderName(name, isHw)   ProcessInfo.cpp:153-162
SetVideoDecoderName ==
  << Lock("m_videoCodecSection"),
     Store("m_videoIsHWDecoder", Arg(2)),
     Store("m_videoDecoderName", Arg(1)),
     IfDataCache(1),
     CacheCall("SetVideoDecoderName", <<Mem("m_videoDecoderName"), Mem("m_videoIsHWDecoder")>>),
     Unlock("m_videoCodecSection") >>

\* GetVideoDecoderName()   ProcessInfo.cpp:164-169
GetVideoDecoderName ==
  << Lock("m_videoCodecSection"),
     Return(<<Mem("m_videoDecoderName")>>),
     Unlock("m_videoCodecSection") >>

\* IsVideoHwDecoder()   ProcessInfo.cpp:171-176
IsVideoHwDecoder ==
  << Lock("m_videoCodecSection"),
     Return(<<Mem("m_videoIsHWDecoder")>>),
     Unlock("m_videoCodecSection") >>

\* SetVideoDeintMethod(method)   ProcessInfo.cpp:178-186
SetVideoDeintMethod ==
  << Lock("m_videoCodecSection"),
     Store("m_videoDeintMethod", Arg(1)),
     IfDataCache(1),
     CacheCall("SetVideoDeintMethod", <<Mem("m_videoDeintMethod")>>),
     Unlock("m_videoCodecSection") >>

\* GetVideoDeintMethod()   ProcessInfo.cpp:188-193
GetVideoDeintMethod ==
  << Lock("m_videoCodecSection"),
     Return(<<Mem("m_videoDeintMethod")>>),
     Unlock("m_videoCodecSection") >>

\* SetVideoPixelFormat(pixFormat)   ProcessInfo.cpp:195-203
SetVideoPixelFormat ==
  << Lock("m_videoCodecSection"),
     Store("m_videoPixelFormat", Arg(1)),
     IfDataCache(1),
     CacheCall("SetVideoPixelFormat", <<Mem("m_videoPixelFormat")>>),
     Unlock("m_videoCodecSection") >>

\* GetVideoPixelFormat()   ProcessInfo.cpp:205-210
GetVideoPixelFormat ==
  << Lock("m_videoCodecSection"),
     Return(<<Mem("m_videoPixelFormat")>>),
     Unlock("m_videoCodecSection") >>

\* SetVideoStereoMode(mode)   ProcessInfo.cpp:212-220
SetVideoStereoMode ==
  << Lock("m_videoCodecSection"),
     Store("m_videoStereoMode", Arg(1)),
     IfDataCache(1),
     CacheCall("SetVideoStereoMode", <<Mem("m_videoStereoMode")>>),
     Unlock("m_videoCodecSection") >>

\* GetVideoStereoMode()   ProcessInfo.cpp:222-227
GetVideoStereoMode ==
  << Lock("m_videoCodecSection"),
     Return(<<Mem("m_videoStereoMode")>>),
     Unlock("m_videoCodecSection") >>

\* SetVideoDimensions(width, height)   ProcessInfo.cpp:229-238
SetVideoDimensions ==
  << Lock("m_videoCodecSection"),
     Store("m_videoWidth", Arg(1)),
     Store("m_videoHeight", Arg(2)),
     IfDataCache(1),
     CacheCall("SetVideoDimensions", <<Mem("m_videoWidth"), Mem("m_videoHeight")>>),
     Unlock("m_videoCodecSection") >>

\* GetVideoDimensions that does not enter the section
GetVideoDimensions_NoLock ==
  << Skip(0),
     Out(1, Mem("m_videoWidth")),
     Out(2, Mem("m_videoHeight")),
     Skip(0) >>

\* GetVideoDimensions(width, height)   ProcessInfo.cpp:240-246
GetVideoDimensions ==
  << Lock("m_videoCodecSection"),
     Out(1, Mem("m_videoWidth")),
     Out(2, Mem("m_videoHeight")),
     Unlock("m_videoCodecSection") >>

\* SetVideoBitDepth(bitDepth)   ProcessInfo.cpp:248-256
SetVideoBitDepth ==
  << Lock("m_videoCodecSection"),
     Store("m_videoBitDepth", Arg(1)),
     IfDataCache(1),
     CacheCall("SetVideoBitDepth", <<Mem("m_videoBitDepth")>>),
     Unlock("m_videoCodecSection") >>

\* GetVideoBitDepth()   ProcessInfo.cpp:258-263
GetVideoBitDepth ==
  << Lock("m_videoCodecSection"),
     Return(<<Mem("m_videoBitDepth")>>),
     Unlock("m_videoCodecSection") >>

\* SetVideoHdrType(hdrType)   ProcessInfo.cpp:265-273
SetVideoHdrType ==
  << Lock("m_videoCodecSection"),
     Store("m_videoHdrType", Arg(1)),
     IfDataCache(1),
     CacheCall("SetVideoHdrType", <<Mem("m_videoHdrType")>>),
     Unlock("m_videoCodecSection") >>

\* GetVideoHdrType()   ProcessInfo.cpp:275-280
GetVideoHdrType ==
  << Lock("m_videoCodecSection"),
     Return(<<Mem("m_videoHdrType")>>),
     Unlock("m_videoCodecSection") >>

\* SetVideoSourceHdrType(hdrType)   ProcessInfo.cpp:282-290
SetVideoSourceHdrType ==
  << Lock("m_videoCodecSection"),
     Store("m_videoSourceHdrType", Arg(1)),
     IfDataCache(1),
     CacheCall("SetVideoSourceHdrType", <<Mem("m_videoSourceHdrType")>>),
     Unlock("m_videoCodecSection") >>

\* GetVideoSourceHdrType()   ProcessInfo.cpp:292-297
GetVideoSourceHdrType ==
  << Lock("m_videoCodecSection"),
     Return(<<Mem("m_videoSourceHdrType")>>),
     Unlock("m_videoCodecSection") >>

\* SetVideoSourceAdditionalHdrType(hdrType)   ProcessInfo.cpp:299-307
SetVideoSourceAdditionalHdrType ==
  << Lock("m_videoCodecSection"),
     Store("m_videoSourceAdditionalHdrType", Arg(1)),
     IfDataCache(1),
     CacheCall("SetVideoSourceAdditionalHdrType", <<Mem("m_videoSourceAdditionalHdrType")>>),
     Unlock("m_videoCodecSection") >>

\* GetVideoSourceAdditionalHdrType()   ProcessInfo.cpp:309-314
GetVideoSourceAdditionalHdrType ==
  << Lock("m_videoCodecSection"),
     Return(<<Mem("m_videoSourceAdditionalHdrType")>>),
     Unlock("m_videoCodecSection") >>

\* SetVideoColorSpace(colorSpace)   ProcessInfo.cpp:316-324
SetVideoColorSpace ==
  << Lock("m_videoCodecSection"),
     Store("m_videoColorSpace", Arg(1)),
     IfDataCache(1),
     CacheCall("SetVideoColorSpace", <<Mem("m_videoColorSpace")>>),
     Unlock("m_videoCodecSection") >>

\* GetVideoColorSpace()   ProcessInfo.cpp:326-331
GetVideoColorSpace ==
  << Lock("m_videoCodecSection"),
     Return(<<Mem("m_videoColorSpace")>>),
     Unlock("m_videoCodecSection") >>

\* SetVideoColorRange(colorRange)   ProcessInfo.cpp:333-341
SetVideoColorRange ==
  << Lock("m_videoCodecSection"),
     Store("m_videoColorRange", Arg(1)),
     IfDataCache(1),
     CacheCall("SetVideoColorRange", <<Mem("m_videoColorRange")>>),
     Unlock("m_videoCodecSection") >>

\* GetVideoColorRange()   ProcessInfo.cpp:343-348
GetVideoColorRange ==
  << Lock("m_videoCodecSection"),
     Return(<<Mem("m_videoColorRange")>>),
     Unlock("m_videoCodecSection") >>

\* SetVideoColorPrimaries(colorPrimaries)   ProcessInfo.cpp:350-358
SetVideoColorPrimaries ==
  << Lock("m_videoCodecSection"),
     Store("m_videoColorPrimaries", Arg(1)),
     IfDataCache(1),
     CacheCall("SetVideoColorPrimaries", <<Mem("m_videoColorPrimaries")>>),
     Unlock("m_videoCodecSection") >>

\* GetVideoColorPrimaries()   ProcessInfo.cpp:360-365
GetVideoColorPrimaries ==
  << Lock("m_videoCodecSection"),
     Return(<<Mem("m_videoColorPrimaries")>>),
     Unlock("m_videoCodecSection") >>

\* SetVideoColorTransferCharacteristic(colorTransferCharacteristic)   ProcessInfo.cpp:367-375
SetVideoColorTransferCharacteristic ==
  << Lock("m_videoCodecSection"),
     Store("m_videoColorTransferCharacteristic", Arg(1)),
     IfDataCache(1),
     CacheCall("SetVideoColorTransferCharacteristic", <<Mem("m_videoColorTransferCharacteristic")>>),
     Unlock("m_videoCodecSection") >>

\* GetVideoColorTransferCharacteristic()   ProcessInfo.cpp:377-382
GetVideoColorTransferCharacteristic ==
  << Lock("m_videoCodecSection"),
     Return(<<Mem("m_videoColorTransferCharacteristic")>>),
     Unlock("m_videoCodecSection") >>

\* SetVideoDoViFrameMetadata(value)   ProcessInfo.cpp:384-392
SetVideoDoViFrameMetadata ==
  << Lock("m_videoCodecSection"),
     Store("m_videoDoViFrameMetadata", Arg(1)),
     IfDataCache(1),
     CacheCall("SetVideoDoViFrameMetadata", <<Mem("m_videoDoViFrameMetadata")>>),
     Unlock("m_videoCodecSection") >>

\* GetVideoDoViFrameMetadata()   ProcessInfo.cpp:394-399
GetVideoDoViFrameMetadata ==
  << Lock("m_videoCodecSection"),
     Return(<<Mem("m_videoDoViFrameMetadata")>>),
     Unlock("m_videoCodecSection") >>

\* SetVideoDoViStreamMetadata(value)   ProcessInfo.cpp:401-409
SetVideoDoViStreamMetadata ==
  << Lock("m_videoCodecSection"),
     Store("m_videoDoViStreamMetadata", Arg(1)),
     IfDataCache(1),
     CacheCall("SetVideoDoViStreamMetadata", <<Mem("m_videoDoViStreamMetadata")>>),
     Unlock("m_videoCodecSection") >>

\* GetVideoDoViStreamMetadata()   ProcessInfo.cpp:411-416
GetVideoDoViStreamMetadata ==
  << Lock("m_videoCodecSection"),
     Return(<<Mem("m_videoDoViStreamMetadata")>>),
     Unlock("m_videoCodecSection") >>

\* SetVideoDoViStreamInfo(value)   ProcessInfo.cpp:418-426
SetVideoDoViStreamInfo ==
  << Lock("m_videoCodecSection"),
     Store("m_videoDoViStreamInfo", Arg(1)),
     IfDataCache(1),
     CacheCall("SetVideoDoViStreamInfo", <<Mem("m_videoDoViStreamInfo")>>),
     Unlock("m_videoCodecSection") >>

\* GetVideoDoViStreamInfo()   ProcessInfo.cpp:428-433
GetVideoDoViStreamInfo ==
  << Lock("m_videoCodecSection"),
     Return(<<Mem("m_videoDoViStreamInfo")>>),
     Unlock("m_videoCodecSection") >>

\* SetVideoSourceDoViStreamInfo(value)   ProcessInfo.cpp:435-443
SetVideoSourceDoViStreamInfo ==
  << Lock("m_videoCodecSection"),
     Store("m_videoSourceDoViStreamInfo", Arg(1)),
     IfDataCache(1),
     CacheCall("SetVideoSourceDoViStreamInfo", <<Mem("m_videoSourceDoViStreamInfo")>>),
     Unlock("m_videoCodecSection") >>

\* GetVideoSourceDoViStreamInfo()   ProcessInfo.cpp:445-450
GetVideoSourceDoViStreamInfo ==
  << Lock("m_videoCodecSection"),
     Return(<<Mem("m_videoSourceDoViStreamInfo")>>),
     Unlock("m_videoCodecSection") >>

\* SetVideoDoViCodecFourCC(codecFourCC)   ProcessInfo.cpp:452-460
SetVideoDoViCodecFourCC ==
  << Lock("m_videoCodecSection"),
     Store("m_videoDoViCodecFourCC", Arg(1)),
     IfDataCache(1),
     CacheCall("SetVideoDoViCodecFourCC", <<Mem("m_videoDoViCodecFourCC")>>),
     Unlock("m_videoCodecSection") >>

\* GetVideoDoViCodecFourCC()   ProcessInfo.cpp:462-467
GetVideoDoViCodecFourCC ==
  << Lock("m_videoCodecSection"),
     Return(<<Mem("m_videoDoViCodecFourCC")>>),
     Unlock("m_videoCodecSection") >>

\* SetVideoHDRStaticMetadataInfo(value)   ProcessInfo.cpp:469-477
SetVideoHDRStaticMetadataInfo ==
  << Lock("m_videoCodecSection"),
     Store("m_videoHDRStaticMetadataInfo", Arg(1)),
     IfDataCache(1),
     CacheCall("SetVideoHDRStaticMetadataInfo", <<Mem("m_videoHDRStaticMetadataInfo")>>),
     Unlock("m_videoCodecSection") >>

\* GetVideoHDRStaticMetadataInfo()   ProcessInfo.cpp:479-484
GetVideoHDRStaticMetadataInfo ==
  << Lock("m_videoCodecSection"),
     Return(<<Mem("m_videoHDRStaticMetadataInfo")>>),
     Unlock("m_videoCodecSection") >>

\* SetVideoVS10Mode(vs10Mode)   ProcessInfo.cpp:486-494
SetVideoVS10Mode ==
  << Lock("m_videoCodecSection"),
     Store("m_videoVS10Mode", Arg(1)),
     IfDataCache(1),
     CacheCall("SetVideoVS10Mode", <<Mem("m_videoVS10Mode")>>),
     Unlock("m_videoCodecSection") >>

\* GetVideoVS10Mode()   ProcessInfo.cpp:496-501
GetVideoVS10Mode ==
  << Lock("m_videoCodecSection"),
     Return(<<Mem("m_videoVS10Mode")>>),
     Unlock("m_videoCodecSection") >>

\* SetVideoLiveBitRate(bitRate)   ProcessInfo.cpp:503-511
SetVideoLiveBitRate ==
  << Lock("m_videoCodecSection"),
     Store("m_videoLiveBitRate", Arg(1)),
     IfDataCache(1),
     CacheCall("SetVideoLiveBitRate", <<Mem("m_videoLiveBitRate")>>),
     Unlock("m_videoCodecSection") >>

\* GetVideoLiveBitRate()   ProcessInfo.cpp:513-518
GetVideoLiveBitRate ==
  << Lock("m_videoCodecSection"),
     Return(<<Mem("m_videoLiveBitRate")>>),
     Unlock("m_videoCodecSection") >>

\* SetVideoQueueLevel(level)   ProcessInfo.cpp:520-528
SetVideoQueueLevel ==
  << Lock("m_videoCodecSection"),
     Store("m_videoQueueLevel", Arg(1)),
     IfDataCache(1),
     CacheCall("SetVideoQueueLevel", <<Mem("m_videoQueueLevel")>>),
     Unlock("m_videoCodecSection") >>

\* GetVideoQueueLevel()   ProcessInfo.cpp:530-535
GetVideoQueueLevel ==
  << Lock("m_videoCodecSection"),
     Return(<<Mem("m_videoQueueLevel")>>),
     Unlock("m_videoCodecSection") >>

\* SetVideoQueueDataLevel(level)   ProcessInfo.cpp:537-545
SetVideoQueueDataLevel ==
  << Lock("m_videoCodecSection"),
     Store("m_videoQueueDataLevel", Arg(1)),
     IfDataCache(1),
     CacheCall("SetVideoQueueDataLevel", <<Mem("m_videoQueueDataLevel")>>),
     Unlock("m_videoCodecSection") >>

\* GetVideoQueueDataLevel()   ProcessInfo.cpp:547-552
GetVideoQueueDataLevel ==
  << Lock("m_videoCodecSection"),
     Return(<<Mem("m_videoQueueDataLevel")>>),
     Unlock("m_videoCodecSection") >>

\* SetVideoFps(fps)   ProcessInfo.cpp:554-562
SetVideoFps ==
  << Lock("m_videoCodecSection"),
     Store("m_videoFPS", Arg(1)),
     IfDataCache(1),
     CacheCall("SetVideoFps", <<Mem("m_videoFPS")>>),
     Unlock("m_videoCodecSection") >>

\* GetVideoFps()   ProcessInfo.cpp:564-569
GetVideoFps ==
  << Lock("m_videoCodecSection"),
     Return(<<Mem("m_videoFPS")>>),
     Unlock("m_videoCodecSection") >>

\* SetVideoDAR(dar)   ProcessInfo.cpp:571-579
SetVideoDAR ==
  << Lock("m_videoCodecSection"),
     Store("m_videoDAR", Arg(1)),
     IfDataCache(1),
     CacheCall("SetVideoDAR", <<Mem("m_videoDAR")>>),
     Unlock("m_videoCodecSection") >>

\* GetVideoDAR()   ProcessInfo.cpp:581-586
GetVideoDAR ==
  << Lock("m_videoCodecSection"),
     Return(<<Mem("m_videoDAR")>>),
     Unlock("m_videoCodecSection") >>

\* SetVideoInterlaced(interlaced)   ProcessInfo.cpp:588-596
SetVideoInterlaced ==
  << Lock("m_videoCodecSection"),
     Store("m_videoIsInterlaced", Arg(1)),
     IfDataCache(1),
     CacheCall("SetVideoInterlaced", <<Arg(1)>>),
     Unlock("m_videoCodecSection") >>

\* GetVideoInterlaced()   ProcessInfo.cpp:598-603
GetVideoInterlaced ==
  << Lock("m_videoCodecSection"),
     Return(<<Mem("m_videoIsInterlaced")>>),
     Unlock("m_videoCodecSection") >>


\* GetDeinterlacingMethodDefault()   ProcessInfo.cpp:655-660
GetDeinterlacingMethodDefault ==
  << Lock("m_videoCodecSection"),
     Return(<<Mem("m_deintMethodDefault")>>),
     Unlock("m_videoCodecSection") >>

\* the vector GetRenderFormats() returns, which holds AV_PIX_FMT_YUV420P
\* ProcessInfo.cpp:920-925
RenderFormats == 2

\* GetRenderFormats()   ProcessInfo.cpp:920-925
GetRenderFormats ==
  << Return(<<Const(RenderFormats)>>) >>

\* GetPixFormats()   ProcessInfo.cpp:667-676
GetPixFormats ==
  << Lock("m_videoCodecSection"),
     IfEmpty(Mem("m_pixFormats"), 2) >>
  \o GetRenderFormats
  \o << Skip(1),
        Return(<<Mem("m_pixFormats")>>),
        Unlock("m_videoCodecSection") >>

\* SetPixFormats(formats)   ProcessInfo.cpp:678-683
SetPixFormats ==
  << Lock("m_videoCodecSection"),
     Store("m_pixFormats", Arg(1)),
     Unlock("m_videoCodecSection") >>

\* ResetAudioCodecInfo that forwards nothing for the queue data level
ResetAudioCodecInfo_OneLess ==
  << Lock("m_audioCodecSection"),
     Store("m_audioDecoderName", Const(0)),
     Store("m_audioChannels", Const(0)),
     Store("m_audioSampleRate", Const(0)),
     Store("m_audioBitsPerSample", Const(0)),
     Store("m_audioIsDolbyAtmos", Const(0)),
     Store("m_audioDtsXType", Const(0)),
     Store("m_audioLiveBitRate", Const(0)),
     Store("m_audioQueueLevel", Const(0)),
     Store("m_audioQueueDataLevel", Const(0)),
     IfDataCache(8),
     CacheCall("SetAudioDecoderName", <<Mem("m_audioDecoderName")>>),
     CacheCall("SetAudioChannels", <<Mem("m_audioChannels")>>),
     CacheCall("SetAudioSampleRate", <<Mem("m_audioSampleRate")>>),
     CacheCall("SetAudioBitsPerSample", <<Mem("m_audioBitsPerSample")>>),
     CacheCall("SetAudioIsDolbyAtmos", <<Mem("m_audioIsDolbyAtmos")>>),
     CacheCall("SetAudioDtsXType", <<Mem("m_audioDtsXType")>>),
     CacheCall("SetAudioLiveBitRate", <<Mem("m_audioLiveBitRate")>>),
     CacheCall("SetAudioQueueLevel", <<Mem("m_audioQueueLevel")>>),
     Unlock("m_audioCodecSection") >>

\* ResetAudioCodecInfo()   ProcessInfo.cpp:688-714
ResetAudioCodecInfo ==
  << Lock("m_audioCodecSection"),
     Store("m_audioDecoderName", Const(0)),
     Store("m_audioChannels", Const(0)),
     Store("m_audioSampleRate", Const(0)),
     Store("m_audioBitsPerSample", Const(0)),
     Store("m_audioIsDolbyAtmos", Const(0)),
     Store("m_audioDtsXType", Const(0)),
     Store("m_audioLiveBitRate", Const(0)),
     Store("m_audioQueueLevel", Const(0)),
     Store("m_audioQueueDataLevel", Const(0)),
     IfDataCache(9),
     CacheCall("SetAudioDecoderName", <<Mem("m_audioDecoderName")>>),
     CacheCall("SetAudioChannels", <<Mem("m_audioChannels")>>),
     CacheCall("SetAudioSampleRate", <<Mem("m_audioSampleRate")>>),
     CacheCall("SetAudioBitsPerSample", <<Mem("m_audioBitsPerSample")>>),
     CacheCall("SetAudioIsDolbyAtmos", <<Mem("m_audioIsDolbyAtmos")>>),
     CacheCall("SetAudioDtsXType", <<Mem("m_audioDtsXType")>>),
     CacheCall("SetAudioLiveBitRate", <<Mem("m_audioLiveBitRate")>>),
     CacheCall("SetAudioQueueLevel", <<Mem("m_audioQueueLevel")>>),
     CacheCall("SetAudioQueueDataLevel", <<Mem("m_audioQueueLevel")>>),
     Unlock("m_audioCodecSection") >>

\* SetAudioDecoderName that forwards the name and does not store it
SetAudioDecoderName_NotStored ==
  << Lock("m_audioCodecSection"),
     IfDataCache(1),
     CacheCall("SetAudioDecoderName", <<Arg(1)>>),
     Unlock("m_audioCodecSection") >>

\* SetAudioDecoderName(name)   ProcessInfo.cpp:716-724
SetAudioDecoderName ==
  << Lock("m_audioCodecSection"),
     Store("m_audioDecoderName", Arg(1)),
     IfDataCache(1),
     CacheCall("SetAudioDecoderName", <<Mem("m_audioDecoderName")>>),
     Unlock("m_audioCodecSection") >>

\* GetAudioDecoderName()   ProcessInfo.cpp:726-731
GetAudioDecoderName ==
  << Lock("m_audioCodecSection"),
     Return(<<Mem("m_audioDecoderName")>>),
     Unlock("m_audioCodecSection") >>

\* SetAudioChannels(channels)   ProcessInfo.cpp:733-741
SetAudioChannels ==
  << Lock("m_audioCodecSection"),
     Store("m_audioChannels", Arg(1)),
     IfDataCache(1),
     CacheCall("SetAudioChannels", <<Mem("m_audioChannels")>>),
     Unlock("m_audioCodecSection") >>

\* GetAudioChannels()   ProcessInfo.cpp:743-748
GetAudioChannels ==
  << Lock("m_audioCodecSection"),
     Return(<<Mem("m_audioChannels")>>),
     Unlock("m_audioCodecSection") >>

\* SetAudioSampleRate(sampleRate)   ProcessInfo.cpp:750-758
SetAudioSampleRate ==
  << Lock("m_audioCodecSection"),
     Store("m_audioSampleRate", Arg(1)),
     IfDataCache(1),
     CacheCall("SetAudioSampleRate", <<Mem("m_audioSampleRate")>>),
     Unlock("m_audioCodecSection") >>

\* GetAudioSampleRate()   ProcessInfo.cpp:760-765
GetAudioSampleRate ==
  << Lock("m_audioCodecSection"),
     Return(<<Mem("m_audioSampleRate")>>),
     Unlock("m_audioCodecSection") >>

\* SetAudioBitsPerSample(bitsPerSample)   ProcessInfo.cpp:767-775
SetAudioBitsPerSample ==
  << Lock("m_audioCodecSection"),
     Store("m_audioBitsPerSample", Arg(1)),
     IfDataCache(1),
     CacheCall("SetAudioBitsPerSample", <<Mem("m_audioBitsPerSample")>>),
     Unlock("m_audioCodecSection") >>

\* GetAudioBitsPerSample()   ProcessInfo.cpp:777-782
GetAudioBitsPerSample ==
  << Lock("m_audioCodecSection"),
     Return(<<Mem("m_audioBitsPerSample")>>),
     Unlock("m_audioCodecSection") >>

\* SetAudioIsDolbyAtmos(isDolbyAtmos)   ProcessInfo.cpp:784-792
SetAudioIsDolbyAtmos ==
  << Lock("m_audioCodecSection"),
     Store("m_audioIsDolbyAtmos", Arg(1)),
     IfDataCache(1),
     CacheCall("SetAudioIsDolbyAtmos", <<Mem("m_audioIsDolbyAtmos")>>),
     Unlock("m_audioCodecSection") >>

\* GetAudioIsDolbyAtmos()   ProcessInfo.cpp:794-799
GetAudioIsDolbyAtmos ==
  << Lock("m_audioCodecSection"),
     Return(<<Mem("m_audioIsDolbyAtmos")>>),
     Unlock("m_audioCodecSection") >>

\* SetAudioDtsXType(dtsXType)   ProcessInfo.cpp:801-809
SetAudioDtsXType ==
  << Lock("m_audioCodecSection"),
     Store("m_audioDtsXType", Arg(1)),
     IfDataCache(1),
     CacheCall("SetAudioDtsXType", <<Mem("m_audioDtsXType")>>),
     Unlock("m_audioCodecSection") >>

\* GetAudioDtsXType()   ProcessInfo.cpp:811-816
GetAudioDtsXType ==
  << Lock("m_audioCodecSection"),
     Return(<<Mem("m_audioDtsXType")>>),
     Unlock("m_audioCodecSection") >>

\* SetAudioLiveBitRate(bitRate)   ProcessInfo.cpp:818-826
SetAudioLiveBitRate ==
  << Lock("m_audioCodecSection"),
     Store("m_audioLiveBitRate", Arg(1)),
     IfDataCache(1),
     CacheCall("SetAudioLiveBitRate", <<Mem("m_audioLiveBitRate")>>),
     Unlock("m_audioCodecSection") >>

\* GetAudioLiveBitRate()   ProcessInfo.cpp:828-833
GetAudioLiveBitRate ==
  << Lock("m_audioCodecSection"),
     Return(<<Mem("m_audioLiveBitRate")>>),
     Unlock("m_audioCodecSection") >>

\* SetAudioQueueLevel(level)   ProcessInfo.cpp:835-843
SetAudioQueueLevel ==
  << Lock("m_audioCodecSection"),
     Store("m_audioQueueLevel", Arg(1)),
     IfDataCache(1),
     CacheCall("SetAudioQueueLevel", <<Mem("m_audioQueueLevel")>>),
     Unlock("m_audioCodecSection") >>

\* GetAudioQueueLevel()   ProcessInfo.cpp:845-850
GetAudioQueueLevel ==
  << Lock("m_audioCodecSection"),
     Return(<<Mem("m_audioQueueLevel")>>),
     Unlock("m_audioCodecSection") >>

\* SetAudioQueueDataLevel(level)   ProcessInfo.cpp:852-860
SetAudioQueueDataLevel ==
  << Lock("m_audioCodecSection"),
     Store("m_audioQueueDataLevel", Arg(1)),
     IfDataCache(1),
     CacheCall("SetAudioQueueDataLevel", <<Mem("m_audioQueueDataLevel")>>),
     Unlock("m_audioCodecSection") >>

\* GetAudioQueueDataLevel()   ProcessInfo.cpp:862-867
GetAudioQueueDataLevel ==
  << Lock("m_audioCodecSection"),
     Return(<<Mem("m_audioQueueDataLevel")>>),
     Unlock("m_audioCodecSection") >>

\* SetRenderClockSync(enabled)   ProcessInfo.cpp:874-882
SetRenderClockSync ==
  << Lock("m_renderSection"),
     Store("m_isClockSync", Arg(1)),
     IfDataCache(1),
     CacheCall("SetRenderClockSync", <<Arg(1)>>),
     Unlock("m_renderSection") >>

\* IsRenderClockSync()   ProcessInfo.cpp:884-889
IsRenderClockSync ==
  << Lock("m_renderSection"),
     Return(<<Mem("m_isClockSync")>>),
     Unlock("m_renderSection") >>

\* UpdateRenderBuffers(queued, discard, free)   ProcessInfo.cpp:904-910
UpdateRenderBuffers ==
  << Lock("m_renderSection"),
     Store("m_renderBufQueued", Arg(1)),
     Store("m_renderBufDiscard", Arg(2)),
     Store("m_renderBufFree", Arg(3)),
     Unlock("m_renderSection") >>

\* GetRenderBuffers(queued, discard, free)   ProcessInfo.cpp:912-918
GetRenderBuffers ==
  << Lock("m_renderSection"),
     Out(1, Mem("m_renderBufQueued")),
     Out(2, Mem("m_renderBufDiscard")),
     Out(3, Mem("m_renderBufFree")),
     Unlock("m_renderSection") >>

\* SeekFinished(offset)   ProcessInfo.cpp:930-935
SeekFinished ==
  << Lock("m_stateSection"),
     IfDataCache(1),
     CacheCall("SeekFinished", <<Arg(1)>>),
     Unlock("m_stateSection") >>

\* SetStateSeeking(active)   ProcessInfo.cpp:937-945
SetStateSeeking ==
  << Lock("m_renderSection"),
     Store("m_stateSeeking", Arg(1)),
     IfDataCache(1),
     CacheCall("SetStateSeeking", <<Arg(1)>>),
     Unlock("m_renderSection") >>

\* IsSeeking()   ProcessInfo.cpp:947-952
IsSeeking ==
  << Lock("m_stateSection"),
     Return(<<Mem("m_stateSeeking")>>),
     Unlock("m_stateSection") >>

\* SetStateRealtime(state)   ProcessInfo.cpp:954-959
SetStateRealtime ==
  << Lock("m_renderSection"),
     Store("m_realTimeStream", Arg(1)),
     Unlock("m_renderSection") >>

\* IsRealtimeStream()   ProcessInfo.cpp:961-966
IsRealtimeStream ==
  << Lock("m_stateSection"),
     Return(<<Mem("m_realTimeStream")>>),
     Unlock("m_stateSection") >>

\* SetSpeed that leaves the pending speed as it is
SetSpeed_CurrentOnly ==
  << Lock("m_stateSection"),
     Store("m_speed", Arg(1)),
     IfDataCache(1),
     CacheCall("SetSpeed", <<Mem("m_newTempo"), Arg(1)>>),
     Unlock("m_stateSection") >>

\* SetSpeed(speed)   ProcessInfo.cpp:968-977
SetSpeed ==
  << Lock("m_stateSection"),
     Store("m_speed", Arg(1)),
     Store("m_newSpeed", Arg(1)),
     IfDataCache(1),
     CacheCall("SetSpeed", <<Mem("m_newTempo"), Arg(1)>>),
     Unlock("m_stateSection") >>

\* SetNewSpeed that sets the current speed too
SetNewSpeed_SetsCurrent ==
  << Lock("m_stateSection"),
     Store("m_speed", Arg(1)),
     Store("m_newSpeed", Arg(1)),
     IfDataCache(1),
     CacheCall("SetSpeed", <<Mem("m_tempo"), Arg(1)>>),
     Unlock("m_stateSection") >>

\* SetNewSpeed(speed)   ProcessInfo.cpp:979-987
SetNewSpeed ==
  << Lock("m_stateSection"),
     Store("m_newSpeed", Arg(1)),
     IfDataCache(1),
     CacheCall("SetSpeed", <<Mem("m_tempo"), Arg(1)>>),
     Unlock("m_stateSection") >>

\* GetNewSpeed()   ProcessInfo.cpp:989-994
GetNewSpeed ==
  << Lock("m_stateSection"),
     Return(<<Mem("m_newSpeed")>>),
     Unlock("m_stateSection") >>

\* SetFrameAdvance(fa)   ProcessInfo.cpp:996-1004
SetFrameAdvance ==
  << Lock("m_stateSection"),
     Store("m_frameAdvance", Arg(1)),
     IfDataCache(1),
     CacheCall("SetFrameAdvance", <<Arg(1)>>),
     Unlock("m_stateSection") >>

\* IsFrameAdvance()   ProcessInfo.cpp:1006-1011
IsFrameAdvance ==
  << Lock("m_stateSection"),
     Return(<<Mem("m_frameAdvance")>>),
     Unlock("m_stateSection") >>

\* SetTempo(tempo)   ProcessInfo.cpp:1013-1022
SetTempo ==
  << Lock("m_stateSection"),
     Store("m_tempo", Arg(1)),
     Store("m_newTempo", Arg(1)),
     IfDataCache(1),
     CacheCall("SetSpeed", <<Arg(1), Mem("m_newSpeed")>>),
     Unlock("m_stateSection") >>

\* SetNewTempo(tempo)   ProcessInfo.cpp:1024-1032
SetNewTempo ==
  << Lock("m_stateSection"),
     Store("m_newTempo", Arg(1)),
     IfDataCache(1),
     CacheCall("SetSpeed", <<Arg(1), Mem("m_speed")>>),
     Unlock("m_stateSection") >>

\* GetNewTempo()   ProcessInfo.cpp:1034-1039
GetNewTempo ==
  << Lock("m_stateSection"),
     Return(<<Mem("m_newTempo")>>),
     Unlock("m_stateSection") >>

\* SetLevelVQ(level)   ProcessInfo.cpp:1067-1070
SetLevelVQ ==
  << Store("m_levelVQ", Arg(1)) >>

\* GetLevelVQ()   ProcessInfo.cpp:1072-1075
GetLevelVQ ==
  << Return(<<Mem("m_levelVQ")>>) >>

\* GetGuiRender()   ProcessInfo.cpp:1090-1095
GetGuiRender ==
  << Lock("m_stateSection"),
     Return(<<Mem("m_renderGuiLayer")>>),
     Unlock("m_stateSection") >>

\* GetVideoRender()   ProcessInfo.cpp:1110-1115
GetVideoRender ==
  << Lock("m_stateSection"),
     Return(<<Mem("m_renderVideoLayer")>>),
     Unlock("m_stateSection") >>

\* SetPlayTimes(start, current, min, max)   ProcessInfo.cpp:1117-1129
SetPlayTimes ==
  << Lock("m_stateSection"),
     Store("m_startTime", Arg(1)),
     Store("m_time", Arg(2)),
     Store("m_timeMin", Arg(3)),
     Store("m_timeMax", Arg(4)),
     IfDataCache(1),
     CacheCall("SetPlayTimes", <<Arg(1), Arg(2), Arg(3), Arg(4)>>),
     Unlock("m_stateSection") >>

\* GetMaxTime()   ProcessInfo.cpp:1131-1135
GetMaxTime ==
  << Lock("m_stateSection"),
     Return(<<Mem("m_timeMax")>>),
     Unlock("m_stateSection") >>

\* GetVideoSettings()   ProcessInfo.cpp:1140-1144
GetVideoSettings ==
  << Lock("m_settingsSection"),
     Return(<<Mem("m_videoSettings")>>),
     Unlock("m_settingsSection") >>

\* SetVideoSettings(settings)   ProcessInfo.cpp:1152-1156
SetVideoSettings ==
  << Lock("m_settingsSection"),
     Store("m_videoSettings", Arg(1)),
     Unlock("m_settingsSection") >>

-----------------------------------------------------------------------------
(* The static poll slot of CAMLCodec (AMLCodec.h:86-87, 133-134).  The bodies
   of PollFrame and SetPollDevice are not in this excerpt; they are written
   down from the description: the process-wide poll device is used and changed
   only by the thread that has set the access flag m_pollSync. *)

\* PollFrame() that polls without taking the access flag
PollFrame_NoFlag ==
  << Return(<<Mem("m_pollDevice")>>) >>

\* static int PollFrame(): wait for the flag, poll the device, clear the flag
PollFrame ==
  << TestAndSet("busy", "m_pollSync"),
     IfLocal("busy", 1),
     Again(2),
     Return(<<Mem("m_pollDevice")>>),
     Clear("m_pollSync") >>

\* static void SetPollDevice(int device)
SetPollDevice ==
  << TestAndSet("busy", "m_pollSync"),
     IfLocal("busy", 1),
     Again(2),
     Store("m_pollDevice", Arg(1)),
     Clear("m_pollSync") >>

-----------------------------------------------------------------------------
(* The registry of process-control factories   ProcessInfo.cpp:23-46 *)

\* what CreateInstance returns when no factory gave an instance:
\* new CProcessInfo()   (factories give the instance 1 or nullptr, 0)
DefaultProcessInfo == 2

\* RegisterProcessControl that keeps the earlier registrations
RegisterProcessControl_NoClear ==
  << Lock("createSection"),
     Skip(0),
     MapPut("m_processControls", Arg(1), Arg(2)),
     Unlock("createSection") >>

\* RegisterProcessControl(id, createFunc)   ProcessInfo.cpp:26-32
RegisterProcessControl ==
  << Lock("createSection"),
     MapClear("m_processControls"),
     MapPut("m_processControls", Arg(1), Arg(2)),
     Unlock("createSection") >>

\* CreateInstance that does not enter createSection
CreateInstance_NoLock ==
  << Skip(0),
     ForBegin("info"),
     MapTest("info", "m_processControls", 5),
     MapCall("ret", "info", "m_processControls"),
     IfLocal("ret", 2),
     Return(<<Loc("ret")>>),
     Skip(2),
     ForNext("info", 5),
     Return(<<Const(DefaultProcessInfo)>>),
     Skip(0) >>

\* CreateInstance()   ProcessInfo.cpp:34-46
CreateInstance ==
  << Lock("createSection"),
     ForBegin("info"),
     MapTest("info", "m_processControls", 5),
     MapCall("ret", "info", "m_processControls"),
     IfLocal("ret", 2),
     Return(<<Loc("ret")>>),
     Skip(2),
     ForNext("info", 5),
     Return(<<Const(DefaultProcessInfo)>>),
     Unlock("createSection") >>

-----------------------------------------------------------------------------
(* The state the statements act on *)

\* the static members of CAMLCodec   AMLCodec.h:133-134
StaticMembers == {"m_pollSync", "m_pollDevice"}

\* the static map of CProcessInfo   ProcessInfo.cpp:24
StaticMaps == {"m_processControls"}

\* the scalar members the methods read or write
Members ==
  {"m_audioBitsPerSample", "m_audioChannels", "m_audioDecoderName",
   "m_audioDtsXType", "m_audioIsDolbyAtmos", "m_audioLiveBitRate",
   "m_audioQueueDataLevel", "m_audioQueueLevel", "m_audioSampleRate",
   "m_deintMethodDefault", "m_frameAdvance", "m_isClockSync", "m_levelVQ",
   "m_newSpeed", "m_newTempo", "m_pixFormats", "m_realTimeStream",
   "m_renderBufDiscard", "m_renderBufFree", "m_renderBufQueued",
   "m_renderGuiLayer", "m_renderVideoLayer", "m_speed", "m_startTime",
   "m_stateSeeking", "m_tempo", "m_time", "m_timeMax", "m_timeMin",
   "m_videoBitDepth", "m_videoColorPrimaries", "m_videoColorRange",
   "m_videoColorSpace", "m_videoColorTransferCharacteristic", "m_videoDAR",
   "m_videoDecoderName", "m_videoDeintMethod", "m_videoDoViCodecFourCC",
   "m_videoDoViFrameMetadata", "m_videoDoViStreamInfo",
   "m_videoDoViStreamMetadata", "m_videoFPS",
   "m_videoHDRStaticMetadataInfo", "m_videoHdrType", "m_videoHeight",
   "m_videoIsHWDecoder", "m_videoIsInterlaced", "m_videoLiveBitRate",
   "m_videoPixelFormat", "m_videoPts", "m_videoQueueDataLevel",
   "m_videoQueueLevel", "m_videoSettings",
   "m_videoSourceAdditionalHdrType", "m_videoSourceDoViStreamInfo",
   "m_videoSourceHdrType", "m_videoStereoMode", "m_videoVS10Mode",
   "m_videoWidth"}

\* the setters of CDataCacheCore the methods call
CacheSetters ==
  {"SeekFinished", "SetAudioBitsPerSample", "SetAudioChannels",
   "SetAudioDecoderName", "SetAudioDtsXType", "SetAudioIsDolbyAtmos",
   "SetAudioLiveBitRate", "SetAudioQueueDataLevel", "SetAudioQueueLevel",
   "SetAudioSampleRate", "SetFrameAdvance", "SetGuiRender", "SetPlayTimes",
   "SetRenderClockSync", "SetSpeed", "SetStateSeeking", "SetVideoBitDepth",
   "SetVideoColorPrimaries", "SetVideoColorRange", "SetVideoColorSpace",
   "SetVideoColorTransferCharacteristic", "SetVideoDAR",
   "SetVideoDecoderName", "SetVideoDeintMethod", "SetVideoDimensions",
   "SetVideoDoViCodecFourCC", "SetVideoDoViFrameMetadata",
   "SetVideoDoViStreamInfo", "SetVideoDoViStreamMetadata", "SetVideoFps",
   "SetVideoHDRStaticMetadataInfo", "SetVideoHdrType",
   "SetVideoInterlaced", "SetVideoLiveBitRate", "SetVideoPixelFormat",
   "SetVideoPts", "SetVideoQueueDataLevel", "SetVideoQueueLevel",
   "SetVideoRender", "SetVideoSourceAdditionalHdrType",
   "SetVideoSourceDoViStreamInfo", "SetVideoSourceHdrType",
   "SetVideoStereoMode", "SetVideoVS10Mode"}

\* the critical sections of the class
Sections == {"m_videoCodecSection", "m_audioCodecSection", "m_renderSection",
             "m_stateSection", "m_settingsSection", "createSection"}

\* the instruction list of each method
Handlers ==
  [Supports |-> Supports,
   ResetVideoCodecInfo |-> ResetVideoCodecInfo,
   SetDataCache |-> SetDataCache,
   SetDeinterlacingMethodDefault |-> SetDeinterlacingMethodDefault,
   UpdateDeinterlacingMethods |-> UpdateDeinterlacingMethods,
   SetSwDeinterlacingMethods |-> SetSwDeinterlacingMethods,
   UpdateRenderInfo |-> UpdateRenderInfo,
   SetGuiRender |-> SetGuiRender,
   SetVideoRender |-> SetVideoRender,
   SetVideoPts |-> SetVideoPts,
   GetVideoPts |-> GetVideoPts,
   SetVideoDecoderName |-> SetVideoDecoderName,
   GetVideoDecoderName |-> GetVideoDecoderName,
   IsVideoHwDecoder |-> IsVideoHwDecoder,
   SetVideoDeintMethod |-> SetVideoDeintMethod,
   GetVideoDeintMethod |-> GetVideoDeintMethod,
   SetVideoPixelFormat |-> SetVideoPixelFormat,
   GetVideoPixelFormat |-> GetVideoPixelFormat,
   SetVideoStereoMode |-> SetVideoStereoMode,
   GetVideoStereoMode |-> GetVideoStereoMode,
   SetVideoDimensions |-> SetVideoDimensions,
   GetVideoDimensions |-> GetVideoDimensions,
   SetVideoBitDepth |-> SetVideoBitDepth,
   GetVideoBitDepth |-> GetVideoBitDepth,
   SetVideoHdrType |-> SetVideoHdrType,
   GetVideoHdrType |-> GetVideoHdrType,
   SetVideoSourceHdrType |-> SetVideoSourceHdrType,
   GetVideoSourceHdrType |-> GetVideoSourceHdrType,
   SetVideoSourceAdditionalHdrType |-> SetVideoSourceAdditionalHdrType,
   GetVideoSourceAdditionalHdrType |-> GetVideoSourceAdditionalHdrType,
   SetVideoColorSpace |-> SetVideoColorSpace,
   GetVideoColorSpace |-> GetVideoColorSpace,
   SetVideoColorRange |-> SetVideoColorRange,
   GetVideoColorRange |-> GetVideoColorRange,
   SetVideoColorPrimaries |-> SetVideoColorPrimaries,
   GetVideoColorPrimaries |-> GetVideoColorPrimaries,
   SetVideoColorTransferCharacteristic |-> SetVideoColorTransferCharacteristic,
   GetVideoColorTransferCharacteristic |-> GetVideoColorTransferCharacteristic,
   SetVideoDoViFrameMetadata |-> SetVideoDoViFrameMetadata,
   GetVideoDoViFrameMetadata |-> GetVideoDoViFrameMetadata,
   SetVideoDoViStreamMetadata |-> SetVideoDoViStreamMetadata,
   GetVideoDoViStreamMetadata |-> GetVideoDoViStreamMetadata,
   SetVideoDoViStreamInfo |-> SetVideoDoViStreamInfo,
   GetVideoDoViStreamInfo |-> GetVideoDoViStreamInfo,
   SetVideoSourceDoViStreamInfo |-> SetVideoSourceDoViStreamInfo,
   GetVideoSourceDoViStreamInfo |-> GetVideoSourceDoViStreamInfo,
   SetVideoDoViCodecFourCC |-> SetVideoDoViCodecFourCC,
   GetVideoDoViCodecFourCC |-> GetVideoDoViCodecFourCC,
   SetVideoHDRStaticMetadataInfo |-> SetVideoHDRStaticMetadataInfo,
   GetVideoHDRStaticMetadataInfo |-> GetVideoHDRStaticMetadataInfo,
   SetVideoVS10Mode |-> SetVideoVS10Mode,
   GetVideoVS10Mode |-> GetVideoVS10Mode,
   SetVideoLiveBitRate |-> SetVideoLiveBitRate,
   GetVideoLiveBitRate |-> GetVideoLiveBitRate,
   SetVideoQueueLevel |-> SetVideoQueueLevel,
   GetVideoQueueLevel |-> GetVideoQueueLevel,
   SetVideoQueueDataLevel |-> SetVideoQueueDataLevel,
   GetVideoQueueDataLevel |-> GetVideoQueueDataLevel,
   SetVideoFps |-> SetVideoFps,
   GetVideoFps |-> GetVideoFps,
   SetVideoDAR |-> SetVideoDAR,
   GetVideoDAR |-> GetVideoDAR,
   SetVideoInterlaced |-> SetVideoInterlaced,
   GetVideoInterlaced |-> GetVideoInterlaced,
   GetDeinterlacingMethodDefault |-> GetDeinterlacingMethodDefault,
   SetPixFormats |-> SetPixFormats,
   ResetAudioCodecInfo |-> ResetAudioCodecInfo,
   SetAudioDecoderName |-> SetAudioDecoderName,
   GetAudioDecoderName |-> GetAudioDecoderName,
   SetAudioChannels |-> SetAudioChannels,
   GetAudioChannels |-> GetAudioChannels,
   SetAudioSampleRate |-> SetAudioSampleRate,
   GetAudioSampleRate |-> GetAudioSampleRate,
   SetAudioBitsPerSample |-> SetAudioBitsPerSample,
   GetAudioBitsPerSample |-> GetAudioBitsPerSample,
   SetAudioIsDolbyAtmos |-> SetAudioIsDolbyAtmos,
   GetAudioIsDolbyAtmos |-> GetAudioIsDolbyAtmos,
   SetAudioDtsXType |-> SetAudioDtsXType,
   GetAudioDtsXType |-> GetAudioDtsXType,
   SetAudioLiveBitRate |-> SetAudioLiveBitRate,
   GetAudioLiveBitRate |-> GetAudioLiveBitRate,
   SetAudioQueueLevel |-> SetAudioQueueLevel,
   GetAudioQueueLevel |-> GetAudioQueueLevel,
   SetAudioQueueDataLevel |-> SetAudioQueueDataLevel,
   GetAudioQueueDataLevel |-> GetAudioQueueDataLevel,
   SetRenderClockSync |-> SetRenderClockSync,
   IsRenderClockSync |-> IsRenderClockSync,
   UpdateRenderBuffers |-> UpdateRenderBuffers,
   GetRenderBuffers |-> GetRenderBuffers,
   SeekFinished |-> SeekFinished,
   SetStateSeeking |-> SetStateSeeking,
   IsSeeking |-> IsSeeking,
   SetStateRealtime |-> SetStateRealtime,
   IsRealtimeStream |-> IsRealtimeStream,
   SetSpeed |-> SetSpeed,
   SetNewSpeed |-> SetNewSpeed,
   GetNewSpeed |-> GetNewSpeed,
   SetFrameAdvance |-> SetFrameAdvance,
   IsFrameAdvance |-> IsFrameAdvance,
   SetTempo |-> SetTempo,
   SetNewTempo |-> SetNewTempo,
   GetNewTempo |-> GetNewTempo,
   SetLevelVQ |-> SetLevelVQ,
   GetLevelVQ |-> GetLevelVQ,
   GetGuiRender |-> GetGuiRender,
   GetVideoRender |-> GetVideoRender,
   SetPlayTimes |-> SetPlayTimes,
   GetMaxTime |-> GetMaxTime,
   GetVideoSettings |-> GetVideoSettings,
   SetVideoSettings |-> SetVideoSettings,
   GetRenderFormats |-> GetRenderFormats,
   GetPixFormats |-> GetPixFormats,
   PollFrame |-> PollFrame,
   SetPollDevice |-> SetPollDevice,
   RegisterProcessControl |-> RegisterProcessControl,
   CreateInstance |-> CreateInstance]

-----------------------------------------------------------------------------
(* The interpreter.  A machine state S is the shared state together with the
   registers of the executing call: its arguments, its list argument, its
   locals, the value returned by the call it made last, the values it wrote to
   its reference parameters, and ip, the statement it is at. *)

Locals == {"change", "found", "it", "busy", "ret", "info"}

Registers(args, list) ==
  [args |-> args, list |-> list, loc |-> [l \in Locals |-> 0],
   ret |-> <<>>, out |-> <<0, 0, 0>>, ip |-> 1]

\* (wild is what a read through an invalid iterator gives, and stray whether
\* incrementing one faults, see Step)
Shared ==
  [m |-> m, dl |-> m_deintMethods, ri |-> m_renderInfo, dc |-> m_dataCache,
   cache |-> cache, lk |-> locks, wild |-> VS_INTERLACEMETHOD_NONE,
   stray |-> FALSE]

\* the fields of a record r, followed by those of a record q
Join(r, q) ==
  [f \in (DOMAIN r) \cup (DOMAIN q) |-> IF f \in DOMAIN r THEN r[f] ELSE q[f]]

Machine(regs) == Join(Shared, regs)

RegsOf(S) ==
  [args |-> S.args, list |-> S.list, loc |-> S.loc, ret |-> S.ret,
   out |-> S.out, ip |-> S.ip]

\* the value of an operand
Val(o, S) ==
  CASE o.s = "arg"   -> S.args[o.i]
    [] o.s = "mem"   -> S.m[o.n]
    [] o.s = "const" -> o.i
    [] o.s = "loc"   -> S.loc[o.n]
    [] o.s = "ret"   -> S.ret[1]
    [] o.s = "elem"  -> IF S.loc[o.n] \in 1..Len(S.ri) THEN S.ri[S.loc[o.n]]
                                                      ELSE S.wild

Vals(x, S) == [i \in 1..Len(x) |-> Val(x[i], S)]

Contains(seq, v) == \E i \in 1..Len(seq) : seq[i] = v

\* the i-th key of a std::map, which iterates in the order of its keys
KeyAt(map, i) ==
  CHOOSE k \in DOMAIN map : Cardinality({x \in DOMAIN map : x < k}) = i - 1

\* the map with the entry of key replaced or added
Put(map, key, value) ==
  [k \in (DOMAIN map) \cup {key} |-> IF k = key THEN value ELSE map[k]]

\* CCriticalSection is recursive: a thread may enter a section it holds
CanEnter(S, t, section) == S.lk[section].owner \in {NoThread, t}

\* whether thread t can execute the statement ins now: it can enter the
\* section it is to enter, and its iterator has not faulted
CanExec(ins, S, t) ==
  /\ ins.k = "lock" => CanEnter(S, t, ins.a)
  /\ ins.k = "fornext" => S.loc[ins.a] # 0

Enter(lk, t, section) ==
  [lk EXCEPT ![section] = [owner |-> t, depth |-> @.depth + 1]]

Leave(lk, section) ==
  [lk EXCEPT ![section] =
     IF @.depth = 1 THEN [owner |-> NoThread, depth |-> 0]
                    ELSE [owner |-> @.owner, depth |-> @.depth - 1]]

\* the machine state after thread t executes the statement ins
Exec(ins, S, t) ==
  LET next == [S EXCEPT !.ip = @ + 1] IN
  CASE ins.k = "lock"   -> [next EXCEPT !.lk = Enter(@, t, ins.a)]
    [] ins.k = "unlock" -> [next EXCEPT !.lk = Leave(@, ins.a)]
    [] ins.k = "store"  -> [next EXCEPT !.m[ins.a] = Val(ins.x[1], S)]
    [] ins.k = "ifcache" ->
         IF S.dc # 0 THEN next ELSE [S EXCEPT !.ip = @ + ins.j + 1]
    [] ins.k = "cachecall" ->
         IF S.dc # 0 THEN [next EXCEPT !.cache[S.dc][ins.a] = Vals(ins.x, S)]
                     ELSE next
    [] ins.k = "bind"   -> [next EXCEPT !.dc = Val(ins.x[1], S)]
    [] ins.k = "setne"  ->
         [next EXCEPT !.loc[ins.a] =
            IF Val(ins.x[1], S) # Val(ins.x[2], S) THEN 1 ELSE 0]
    [] ins.k = "iflocal" ->
         IF S.loc[ins.a] # 0 THEN next ELSE [S EXCEPT !.ip = @ + ins.j + 1]
    [] ins.k = "ifnot"  ->
         IF Val(ins.x[1], S) = 0 THEN next ELSE [S EXCEPT !.ip = @ + ins.j + 1]
    [] ins.k = "skip"   -> [S EXCEPT !.ip = @ + ins.j + 1]
    [] ins.k = "return" -> [next EXCEPT !.ret = Vals(ins.x, S)]
    [] ins.k = "out"    -> [next EXCEPT !.out[ins.j] = Val(ins.x[1], S)]
    [] ins.k = "dassign"   -> [next EXCEPT !.dl = S.list]
    [] ins.k = "dclear"    -> [next EXCEPT !.dl = <<>>]
    [] ins.k = "dpushback" -> [next EXCEPT !.dl = Append(@, Val(ins.x[1], S))]
    [] ins.k = "dpushfront" -> [next EXCEPT !.dl = <<Val(ins.x[1], S)>> \o @]
    [] ins.k = "find"   ->
         [next EXCEPT !.loc[ins.a] =
            IF Contains(S.dl, Val(ins.x[1], S)) THEN 1 ELSE 0]
    [] ins.k = "rassign"  -> [next EXCEPT !.ri = S.list]
    [] ins.k = "mklist"   -> [next EXCEPT !.list = Vals(ins.x, S)]
    [] ins.k = "forbegin" -> [next EXCEPT !.loc[ins.a] = 1]
    [] ins.k = "fortest"  ->
         IF S.loc[ins.a] <= Len(S.ri) THEN next
                                      ELSE [S EXCEPT !.ip = @ + ins.j + 1]
    [] ins.k = "fornext"  ->
         IF S.stray THEN [S EXCEPT !.loc[ins.a] = 0]
         ELSE [S EXCEPT !.loc[ins.a] = @ + 1, !.ip = @ - ins.j]
    [] ins.k = "tas"    ->
         [next EXCEPT !.loc[ins.a] = S.m[ins.x[1].n], !.m[ins.x[1].n] = 1]
    [] ins.k = "clear"  -> [next EXCEPT !.m[ins.a] = 0]
    [] ins.k = "again"  -> [S EXCEPT !.ip = @ - ins.j]
    [] ins.k = "mclear" -> [next EXCEPT !.m[ins.a] = <<>>]
    [] ins.k = "mput"   ->
         [next EXCEPT !.m[ins.a] = Put(@, Val(ins.x[1], S), Val(ins.x[2], S))]
    [] ins.k = "maptest" ->
         IF S.loc[ins.a] <= Cardinality(DOMAIN Val(ins.x[1], S))
         THEN next ELSE [S EXCEPT !.ip = @ + ins.j + 1]
    [] ins.k = "mapcall" ->
         [next EXCEPT !.loc[ins.a] =
            LET map == Val(ins.x[2], S)
                i == Val(ins.x[1], S)
            IN IF i \in 1..Cardinality(DOMAIN map) THEN map[KeyAt(map, i)]
                                                   ELSE 0]

\* the machine state when the call of thread t has run to its end
RECURSIVE Run(_, _, _)
Run(prog, S, t) ==
  IF S.ip > Len(prog) THEN S ELSE Run(prog, Exec(prog[S.ip], S, t), t)

\* a call: the method, its scalar arguments and its list argument
CallOf(op, args, list) == [op |-> op, args |-> args, list |-> list]

\* the machine state after the call c, made by thread t, ran alone to its end
After(c, t) == Run(Handlers[c.op], Machine(Registers(c.args, c.list)), t)

\* what the call c returns when it runs alone in the current state
Result(c) == After(c, "t1").ret

-----------------------------------------------------------------------------
(* The calls a client makes *)

\* the setters of the video attributes (m_videoCodecSection)
VideoSetters ==
  {"SetVideoPts", "SetVideoDecoderName", "SetVideoDeintMethod",
   "SetVideoPixelFormat", "SetVideoStereoMode", "SetVideoDimensions",
   "SetVideoBitDepth", "SetVideoHdrType", "SetVideoSourceHdrType",
   "SetVideoSourceAdditionalHdrType", "SetVideoColorSpace",
   "SetVideoColorRange", "SetVideoColorPrimaries",
   "SetVideoColorTransferCharacteristic", "SetVideoDoViFrameMetadata",
   "SetVideoDoViStreamMetadata", "SetVideoDoViStreamInfo",
   "SetVideoSourceDoViStreamInfo", "SetVideoDoViCodecFourCC",
   "SetVideoHDRStaticMetadataInfo", "SetVideoVS10Mode",
   "SetVideoLiveBitRate", "SetVideoQueueLevel", "SetVideoQueueDataLevel",
   "SetVideoFps", "SetVideoDAR", "SetVideoInterlaced", "SetPixFormats"}

\* the setters of the audio attributes (m_audioCodecSection)
AudioSetters ==
  {"SetAudioDecoderName", "SetAudioChannels", "SetAudioSampleRate",
   "SetAudioBitsPerSample", "SetAudioIsDolbyAtmos", "SetAudioDtsXType",
   "SetAudioLiveBitRate", "SetAudioQueueLevel", "SetAudioQueueDataLevel"}

\* the setters of the playback state, the render state and the settings
StateSetters ==
  {"SetRenderClockSync", "UpdateRenderBuffers", "SeekFinished",
   "SetStateSeeking", "SetStateRealtime", "SetSpeed", "SetNewSpeed",
   "SetFrameAdvance", "SetTempo", "SetNewTempo", "SetLevelVQ",
   "SetGuiRender", "SetVideoRender", "SetPlayTimes", "SetVideoSettings"}

\* the number of scalar parameters of a setter
Arity(op) ==
  CASE op = "SetPlayTimes" -> 4
    [] op = "UpdateRenderBuffers" -> 3
    [] op \in {"SetVideoDecoderName", "SetVideoDimensions"} -> 2
    [] OTHER -> 1

ArgTuples(n) == [1..n -> Values]

SetterCalls(ops) ==
  UNION {{CallOf(op, a, <<>>) : a \in ArgTuples(Arity(op))} : op \in ops}

\* the lists of at most n deinterlace methods
RECURSIVE ListsUpTo(_)
ListsUpTo(n) ==
  IF n = 0 THEN {<<>>}
  ELSE LET shorter == ListsUpTo(n - 1)
       IN shorter \cup {Append(l, x) : l \in shorter, x \in Methods}

MethodLists == ListsUpTo(MaxListLen)

\* the record of a call when none has completed
NoCall ==
  [op |-> "", args |-> <<>>, list |-> <<>>, ret |-> <<>>, out |-> <<0, 0, 0>>]

\* a thread that is in no call; done is the call of Recorded it completed last
Idle == [op |-> "", regs |-> Registers(<<>>, <<>>), done |-> NoCall]

AllIdle == \A t \in Threads : thr[t].op = ""

\* the shared state becomes that of the machine state S
Install(S) ==
  /\ m' = S.m
  /\ m_deintMethods' = S.dl
  /\ m_renderInfo' = S.ri
  /\ m_dataCache' = S.dc
  /\ cache' = S.cache
  /\ locks' = S.lk

\* the record of a call that has completed: the call and what it returned
Completed(c, S) ==
  [op |-> c.op, args |-> c.args, list |-> c.list, ret |-> S.ret, out |-> S.out]

\* the cache setters the instruction list prog calls
CacheCalls(prog) ==
  {prog[i].a : i \in {j \in 1..Len(prog) : prog[j].k = "cachecall"}}

\* the cache setters the methods ops call
CacheSettersOf(ops) == UNION {CacheCalls(Handlers[op]) : op \in ops}

\* where the method op, of instruction list prog, forwards its parameters:
\* <<cache setter, position, parameter>> when op passes its i-th parameter, or
\* the member it has just stored that parameter in, at that position of the
\* cache setter
MirrorOf(op, prog) ==
  LET Stored(k, o, i) ==
        \E j \in 1..(k - 1) : prog[j] = Store(o.n, Arg(i))
      Forwarded(k, pos, i) ==
        \/ prog[k].x[pos] = Arg(i)
        \/ prog[k].x[pos].s = "mem" /\ Stored(k, prog[k].x[pos], i)
  IN UNION {{<<prog[k].a, y[1], y[2]>> :
               y \in {z \in (1..Len(prog[k].x)) \X (1..Arity(op)) :
                        Forwarded(k, z[1], z[2])}} :
            k \in {j \in 1..Len(prog) : prog[j].k = "cachecall"}}

\* ({x : x \in S} and @@ make TLC tabulate the sets and the function once)
Mirror ==
  [op \in VideoSetters \cup AudioSetters \cup StateSetters |->
     {x : x \in MirrorOf(op, Handlers[op])}]
  @@ <<>>

\* the number of parameters of each cache setter the instruction lists call
ArityIn(progs) ==
  [cs \in CacheSetters |->
     LET calls == {ins \in UNION {{p[k] : k \in 1..Len(p)} : p \in progs} :
                     ins.k = "cachecall" /\ ins.a = cs}
     IN IF calls = {} THEN 0 ELSE Len((CHOOSE ins \in calls : TRUE).x)]

\* the instruction lists of a table of methods
ProgramsOf(table) == {table[op] : op \in DOMAIN table}

\* the number of parameters of the cache setter cs
CacheArity == ArityIn(ProgramsOf(Handlers)) @@ <<>>

\* the cache setters of a table of forwards
SettersIn(mirror) == [op \in DOMAIN mirror |-> {x[1] : x \in mirror[op]}]

\* the cache setters a setter forwards its parameters to
MirrorSetters == SettersIn(Mirror) @@ <<>>

\* the cache setters a reset calls
ResetForwards ==
  [op \in {"ResetVideoCodecInfo", "ResetAudioCodecInfo"} |->
     {cs : cs \in CacheCalls(Handlers[op])}]
  @@ <<>>

\* no value is on record for a parameter of a cache setter
Unset == Cardinality(Values)

\* nothing on record, for the cache setters the setters in focus call
NoWantOf(setters) ==
  [cs \in UNION {setters[op] : op \in focus \cap DOMAIN setters} |-> <<>>]

NoWant == NoWantOf(MirrorSetters)

\* what the bound cache is to show once the call c has completed: for each
\* parameter of each cache setter, the value the setter called last for it was
\* given while a cache was bound (Unset, or <<>> for all the parameters of a
\* cache setter, when no setter was, or a reset or a rebinding followed);
\* mirror, arity and resets are the tables Mirror, CacheArity and ResetForwards
WantOf(c, mirror, arity, resets) ==
  IF c.op = "SetDataCache" THEN [cs \in DOMAIN hist.want |-> <<>>]
  ELSE IF m_dataCache = 0 THEN hist.want
  ELSE IF c.op \in DOMAIN resets
    THEN [cs \in DOMAIN hist.want |->
            IF cs \in resets[c.op] THEN <<>> ELSE hist.want[cs]]
  ELSE IF c.op \notin DOMAIN mirror THEN hist.want
  ELSE [cs \in DOMAIN hist.want |->
          IF \A x \in mirror[c.op] : x[1] # cs THEN hist.want[cs]
          ELSE [pos \in 1..arity[cs] |->
                  LET ms == {x \in mirror[c.op] : x[1] = cs /\ x[2] = pos}
                  IN IF ms # {} THEN c.args[(CHOOSE x \in ms : TRUE)[3]]
                     ELSE IF hist.want[cs] = <<>> THEN Unset
                          ELSE hist.want[cs][pos]]]

Want(c) == WantOf(c, Mirror, CacheArity, ResetForwards)

Remember(c) ==
  [updated |-> hist.updated \/ c.op \in {"UpdateDeinterlacingMethods",
                                         "SetSwDeinterlacingMethods"},
   want |-> Want(c)]

\* the call c runs alone to its end (its caller checks that no other call is
\* in progress)
SeqCall(c) ==
  /\ \E S \in {After(c, "t1")} :
       /\ Install(S)
       /\ last' = Completed(c, S)
  /\ hist' = Remember(c)
  /\ UNCHANGED <<thr, focus, m_maxTempo, tempoIn, tempoOut>>

CallSetDataCache ==
  /\ AllIdle
  /\ \E c \in Caches : SeqCall(CallOf("SetDataCache", <<c>>, <<>>))

CallResetVideoCodecInfo ==
  /\ AllIdle
  /\ SeqCall(CallOf("ResetVideoCodecInfo", <<>>, <<>>))

CallResetAudioCodecInfo ==
  /\ AllIdle
  /\ SeqCall(CallOf("ResetAudioCodecInfo", <<>>, <<>>))

CallVideoSetter ==
  /\ AllIdle
  /\ \E c \in SetterCalls(focus \cap VideoSetters) : SeqCall(c)

CallAudioSetter ==
  /\ AllIdle
  /\ \E c \in SetterCalls(focus \cap AudioSetters) : SeqCall(c)

CallStateSetter ==
  /\ AllIdle
  /\ \E c \in SetterCalls(focus \cap StateSetters) : SeqCall(c)

CallUpdateDeinterlacingMethods ==
  /\ AllIdle
  /\ "deint" \in focus
  /\ \E l \in MethodLists : SeqCall(CallOf("UpdateDeinterlacingMethods", <<>>, l))

CallUpdateRenderInfo ==
  /\ AllIdle
  /\ "deint" \in focus
  /\ \E l \in MethodLists : SeqCall(CallOf("UpdateRenderInfo", <<>>, l))

CallSetSwDeinterlacingMethods ==
  /\ AllIdle
  /\ "deint" \in focus
  /\ SeqCall(CallOf("SetSwDeinterlacingMethods", <<>>, <<>>))

CallSetDeinterlacingMethodDefault ==
  /\ AllIdle
  /\ "SetDeinterlacingMethodDefault" \in focus
  /\ \E x \in Methods : SeqCall(CallOf("SetDeinterlacingMethodDefault", <<x>>, <<>>))

-----------------------------------------------------------------------------
(* Calls made by two threads at once, executed statement by statement *)

\* the setters of the render state
RenderSetters ==
  {"SetRenderClockSync", "UpdateRenderBuffers", "SetGuiRender", "SetVideoRender"}

\* the setters of the settings
SettingsSetters == {"SetVideoSettings", "SetLevelVQ"}

\* the setters of the playback state
PlaybackSetters == (StateSetters \ RenderSetters) \ SettingsSetters

\* the field groups
Groups == {VideoSetters, AudioSetters, RenderSetters, PlaybackSetters,
           SettingsSetters}

\* the two groups the setters in focus are of: that of thread t1 is the group
\* of the setter CHOOSE picks, that of thread t2 is the other
GroupsInFocus == {g \in Groups : focus \cap g # {}}

MenuOf(t) ==
  LET first == CHOOSE g \in GroupsInFocus : TRUE
  IN IF t = "t1" THEN focus \cap first ELSE focus \ first

\* the statement thread t is at
Statement(t) == Handlers[thr[t].op][thr[t].regs.ip]

\* thread t is in a call and can execute its statement
CanStep(t) ==
  /\ thr[t].op # ""
  /\ CanExec(Statement(t), Machine(thr[t].regs), t)

\* thread t enters a call
Begin(t) ==
  /\ thr[t].op = ""
  /\ \E c \in SetterCalls(MenuOf(t)) :
       thr' = [thr EXCEPT ![t] = [op |-> c.op,
                                  regs |-> Registers(c.args, c.list),
                                  done |-> @.done]]
  /\ UNCHANGED <<m, m_deintMethods, m_renderInfo, m_dataCache, cache, locks,
                 last, hist, focus, m_maxTempo, tempoIn, tempoOut>>

\* what thread t may read through its iterator: when another thread has
\* assigned m_renderInfo since the loop test, so that the iterator is no longer
\* one of the list, the behaviour is undefined and the read gives any method
WildReads(t) ==
  IF /\ \E i \in 1..Len(Statement(t).x) : Statement(t).x[i].s = "elem"
     /\ thr[t].regs.loc["it"] \notin 1..Len(m_renderInfo)
  THEN Methods
  ELSE {VS_INTERLACEMETHOD_NONE}

\* what ++it does in thread t: when the iterator is no longer one of the list
\* the behaviour is undefined; it gives the next position, or it faults and
\* the call goes no further (position 0, see CanExec)
StrayNexts(t) ==
  IF /\ Statement(t) = ForNext("it", Statement(t).j)
     /\ thr[t].regs.loc["it"] \notin 1..Len(m_renderInfo)
  THEN {FALSE, TRUE}
  ELSE {FALSE}

\* the calls a thread keeps the record of
Recorded == (DOMAIN Mirror) \cup {"RegisterProcessControl"}

\* thread t executes one statement; the call completes with its last one
Step(t) ==
  /\ CanStep(t)
  /\ \E w \in WildReads(t) : \E n \in StrayNexts(t) :
     \E S \in {Exec(Statement(t),
                     [Machine(thr[t].regs) EXCEPT !.wild = w, !.stray = n], t)} :
       /\ Install(S)
       /\ IF S.ip > Len(Handlers[thr[t].op])
          THEN LET c == CallOf(thr[t].op, thr[t].regs.args, thr[t].regs.list)
               IN thr' = [thr EXCEPT ![t] = [op |-> "",
                                             regs |-> Registers(<<>>, <<>>),
                                             done |-> IF c.op \in Recorded
                                                      THEN Completed(c, S)
                                                      ELSE @.done]]
          ELSE thr' = [thr EXCEPT ![t].regs = RegsOf(S)]
  /\ UNCHANGED <<last, hist, focus, m_maxTempo, tempoIn, tempoOut>>

\* a cache is bound before the threads start
BindFirst ==
  /\ AllIdle
  /\ m_dataCache = 0
  /\ \A t \in Threads : thr[t].done = NoCall
  /\ SeqCall(CallOf("SetDataCache", <<CHOOSE c \in Caches : TRUE>>, <<>>))

-----------------------------------------------------------------------------
(* Two threads calling any method of the focus, and the accesses they make *)

\* the calls of the method op
CallsTo(op) ==
  CASE op = "SetDataCache" -> {CallOf(op, <<c>>, <<>>) : c \in Caches}
    [] op \in {"UpdateDeinterlacingMethods", "UpdateRenderInfo"} ->
         {CallOf(op, <<>>, l) : l \in ListsUpTo(MaxRaceListLen)}
    [] op = "SetPollDevice" -> {CallOf(op, <<d>>, <<>>) : d \in Values}
    [] op = "RegisterProcessControl" ->
         {CallOf(op, a, <<>>) : a \in ArgTuples(2)}
    [] op \in {"Supports", "SetDeinterlacingMethodDefault"} ->
         {CallOf(op, <<x>>, <<>>) : x \in Methods}
    [] op \in VideoSetters \cup AudioSetters \cup StateSetters ->
         SetterCalls({op})
    [] OTHER -> {CallOf(op, <<>>, <<>>)}

\* the methods thread t calls: any method of the focus; when the focus has
\* SetDataCache, thread t1 binds caches and thread t2 calls the other methods
MenuAny(t) ==
  IF "SetDataCache" \notin focus THEN focus
  ELSE IF t = "t1" THEN {"SetDataCache"} ELSE focus \ {"SetDataCache"}

\* thread t enters a call of a method of its menu
BeginAny(t) ==
  /\ thr[t].op = ""
  /\ \E op \in MenuAny(t) : \E c \in CallsTo(op) :
       thr' = [thr EXCEPT ![t] = [op |-> c.op,
                                  regs |-> Registers(c.args, c.list),
                                  done |-> @.done]]
  /\ UNCHANGED <<m, m_deintMethods, m_renderInfo, m_dataCache, cache, locks,
                 last, hist, focus, m_maxTempo, tempoIn, tempoOut>>

\* the members, lists and pointer a statement reads through its operands
OperandReads(x) ==
  {x[i].n : i \in {j \in 1..Len(x) : x[j].s = "mem"}}
  \cup (IF \E i \in 1..Len(x) : x[i].s = "elem" THEN {"m_renderInfo"} ELSE {})

\* what the statement ins reads
Reads(ins) ==
  OperandReads(ins.x)
  \cup (CASE ins.k \in {"ifcache", "cachecall"} -> {"m_dataCache"}
          [] ins.k = "find" -> {"m_deintMethods"}
          [] ins.k \in {"fortest", "fornext", "forbegin"} -> {"m_renderInfo"}
          [] OTHER -> {})

\* what the statement ins writes
Writes(ins) ==
  CASE ins.k = "store" -> {ins.a}
    [] ins.k = "bind" -> {"m_dataCache"}
    [] ins.k \in {"dassign", "dclear", "dpushback", "dpushfront"} ->
         {"m_deintMethods"}
    [] ins.k = "rassign" -> {"m_renderInfo"}
    [] OTHER -> {}

\* two threads are each about to execute a statement, one of them writing an
\* object of objs that the other reads or writes: no section orders the two
\* accesses, as the threads could not both have reached them otherwise
RaceAt(insT, insU, objs) ==
  (Writes(insT) \cap (Reads(insU) \cup Writes(insU)) \cap objs) # {}

RaceOn(objs) ==
  \E t \in Threads : \E u \in Threads \ {t} :
    /\ thr[t].op # "" /\ thr[u].op # ""
    /\ RaceAt(Statement(t), Statement(u), objs)

-----------------------------------------------------------------------------
(* IsTempoAllowed.  Tempi are in hundredths: 0.75f is 75, 1.55f is 155. *)

MinTempoPlatform == 75

MaxTempoPlatform == 155

TempoValues == {5 * k : k \in 0..MaxTempoSteps}

\* IsTempoAllowed with the floor included
IsTempoAllowed_FloorIncluded(tempo, maxTempo) ==
  IF tempo >= MinTempoPlatform /\ (tempo < MaxTempoPlatform \/ tempo < maxTempo)
  THEN TRUE
  ELSE FALSE

\* bool CProcessInfo::IsTempoAllowed(float tempo), with maxTempo the value of
\* GetAdvancedSettings()->m_maxTempo
IsTempoAllowed(tempo, maxTempo) ==
  IF tempo > MinTempoPlatform /\ (tempo < MaxTempoPlatform \/ tempo < maxTempo)
  THEN TRUE
  ELSE FALSE

\* the administrator configures m_maxTempo
Configure ==
  /\ "tempo" \in focus
  /\ \E x \in TempoValues : m_maxTempo' = x
  /\ tempoIn' = <<>>
  /\ tempoOut' = FALSE
  /\ UNCHANGED <<m, m_deintMethods, m_renderInfo, m_dataCache, cache, locks,
                 thr, last, hist, focus>>

CallIsTempoAllowed ==
  /\ "tempo" \in focus
  /\ \E x \in TempoValues :
       /\ tempoIn' = <<x>>
       /\ tempoOut' = IsTempoAllowed(x, m_maxTempo)
  /\ UNCHANGED <<m, m_deintMethods, m_renderInfo, m_dataCache, cache, locks,
                 thr, last, hist, focus, m_maxTempo>>

-----------------------------------------------------------------------------
(* The sequential specifications: calls made one after the other *)

(* A run exercises the accessors of one focus, together with SetDataCache and
   the two resets: the setters that share a member or a cache setter (the four
   speed and tempo setters), any other setter alone, the deinterlace-method
   registry, or IsTempoAllowed. *)
SpeedTempoSetters == {"SetSpeed", "SetNewSpeed", "SetTempo", "SetNewTempo"}

Foci ==
  {{op} : op \in (VideoSetters \cup AudioSetters \cup StateSetters)
                   \ SpeedTempoSetters}
  \cup {SpeedTempoSetters, {"SetDeinterlacingMethodDefault"}}

\* the clusters of setters two threads call concurrently: of each group, one
\* setter of each section and of each shape (one or several parameters,
\* forwarding always, on change or never, with and without a section)
ConcClusters ==
  {{"SetVideoPixelFormat"}, {"SetVideoDimensions"},
   {"SetAudioDecoderName"},
   {"SetRenderClockSync"}, {"SetGuiRender"},
   {"SetStateSeeking"}, SpeedTempoSetters,
   {"SetVideoSettings"}, {"SetLevelVQ"}}

\* two threads calling setters of two different field groups
ConcFoci ==
  {f \in {a \cup b : a \in ConcClusters, b \in ConcClusters} :
     Cardinality({g \in Groups : f \cap g # {}}) = 2}

\* the methods two threads call at once, any method by either thread: a
\* setter and a getter of its field, with the reset when it writes the field
\* too; the methods that use the two lists of deinterlace methods; the binding
\* of the cache with the setter of either render flag
AccessFoci ==
  {{"SetStateSeeking", "IsSeeking", "ResetVideoCodecInfo"},
   {"SetStateRealtime", "IsRealtimeStream"},
   {"SetVideoPts", "GetVideoPts"},
   {"SetAudioChannels", "GetAudioChannels"},
   {"SetRenderClockSync", "IsRenderClockSync"},
   {"SetNewSpeed", "GetNewSpeed"},
   {"SetVideoSettings", "GetVideoSettings"},
   {"SetLevelVQ", "GetLevelVQ"}}

ListFoci ==
  {{"UpdateRenderInfo", "UpdateDeinterlacingMethods", "ResetVideoCodecInfo",
    "Supports"}}

BindFoci ==
  {{"SetDataCache", "SetGuiRender"}, {"SetDataCache", "SetVideoRender"}}

\* the setters of several values, their getters, and the reset of the values
WholeFoci ==
  {{"SetVideoDimensions", "GetVideoDimensions", "ResetVideoCodecInfo"},
   {"UpdateRenderBuffers", "GetRenderBuffers"}}

\* the state after construction, for a run that calls the setters of one of foci
Constructed(foci) ==
  /\ m = [f \in Members \cup StaticMembers |-> 0]
         @@ [f \in StaticMaps |-> <<>>]
  /\ m_deintMethods = <<>>
  /\ m_renderInfo = <<>>
  /\ m_dataCache = 0
  /\ cache = [c \in Caches |-> [s \in CacheSetters |-> <<>>]]
  /\ locks = [s \in Sections |-> [owner |-> NoThread, depth |-> 0]]
  /\ thr = [t \in Threads |-> Idle]
  /\ last = NoCall
  /\ focus \in foci
  /\ hist = [updated |-> FALSE, want |-> NoWant]
  /\ m_maxTempo = MaxTempoPlatform
  /\ tempoIn = <<>>
  /\ tempoOut = FALSE

Init == Constructed(Foci)

InitDeint == Constructed({{"deint"}})

InitTempo == Constructed({{"tempo"}})

InitConc == Constructed(ConcFoci)

InitRace == Constructed(AccessFoci)

InitBind == Constructed(BindFoci)

InitLists == Constructed(ListFoci)

InitPoll == Constructed({{"PollFrame", "SetPollDevice"}})

InitRegistry == Constructed({{"RegisterProcessControl", "CreateInstance"}})

InitWhole == Constructed(WholeFoci)

\* the setters, the resets and the binding of the cache
Next ==
  \/ CallSetDataCache
  \/ CallResetVideoCodecInfo
  \/ CallResetAudioCodecInfo
  \/ CallVideoSetter
  \/ CallAudioSetter
  \/ CallStateSetter
  \/ CallSetDeinterlacingMethodDefault

Spec == Init /\ [][Next]_vars

\* the registry of deinterlace methods
NextDeint ==
  \/ CallUpdateDeinterlacingMethods
  \/ CallUpdateRenderInfo
  \/ CallSetSwDeinterlacingMethods
  \/ CallResetVideoCodecInfo

SpecDeint == InitDeint /\ [][NextDeint]_vars

\* the tempo check
NextTempo ==
  \/ Configure
  \/ CallIsTempoAllowed

SpecTempo == InitTempo /\ [][NextTempo]_vars

NextConc ==
  \/ BindFirst
  \/ \E t \in Threads : Begin(t)
  \/ \E t \in Threads : Step(t)

SpecConc == InitConc /\ [][NextConc]_vars

\* two threads, each calling any method of the focus
NextRace ==
  \/ BindFirst
  \/ \E t \in Threads : BeginAny(t)
  \/ \E t \in Threads : Step(t)

SpecRace == InitRace /\ [][NextRace]_vars

\* a thread binding caches while the other sets the two render flags
SpecBind == InitBind /\ [][NextRace]_vars

\* two threads using the two lists of deinterlace methods, no cache bound
NextLists ==
  \/ \E t \in Threads : BeginAny(t)
  \/ \E t \in Threads : Step(t)

SpecLists == InitLists /\ [][NextLists]_vars

\* two threads polling and setting the poll device
SpecPoll == InitPoll /\ [][NextLists]_vars

\* two threads registering factories and creating instances
SpecRegistry == InitRegistry /\ [][NextLists]_vars

\* two threads setting, resetting and getting the values of one setter
SpecWhole == InitWhole /\ [][NextLists]_vars

-----------------------------------------------------------------------------
(* Setters and their getters *)

\* a setter, a getter, and the parameters of the setter the getter is to give
\* back; "out" when the getter gives them back in its reference parameters
Pair(set, get, idx, via) == [set |-> set, get |-> get, idx |-> idx, via |-> via]

\* the pairs Set<Field> / Get<Field> of one parameter
SameNamePairs ==
  {<<"SetDeinterlacingMethodDefault", "GetDeinterlacingMethodDefault">>,
   <<"SetGuiRender", "GetGuiRender">>,
   <<"SetVideoRender", "GetVideoRender">>,
   <<"SetVideoPts", "GetVideoPts">>,
   <<"SetVideoDecoderName", "GetVideoDecoderName">>,
   <<"SetVideoDeintMethod", "GetVideoDeintMethod">>,
   <<"SetVideoPixelFormat", "GetVideoPixelFormat">>,
   <<"SetVideoStereoMode", "GetVideoStereoMode">>,
   <<"SetVideoBitDepth", "GetVideoBitDepth">>,
   <<"SetVideoHdrType", "GetVideoHdrType">>,
   <<"SetVideoSourceHdrType", "GetVideoSourceHdrType">>,
   <<"SetVideoSourceAdditionalHdrType", "GetVideoSourceAdditionalHdrType">>,
   <<"SetVideoColorSpace", "GetVideoColorSpace">>,
   <<"SetVideoColorRange", "GetVideoColorRange">>,
   <<"SetVideoColorPrimaries", "GetVideoColorPrimaries">>,
   <<"SetVideoColorTransferCharacteristic", "GetVideoColorTransferCharacteristic">>,
   <<"SetVideoDoViFrameMetadata", "GetVideoDoViFrameMetadata">>,
   <<"SetVideoDoViStreamMetadata", "GetVideoDoViStreamMetadata">>,
   <<"SetVideoDoViStreamInfo", "GetVideoDoViStreamInfo">>,
   <<"SetVideoSourceDoViStreamInfo", "GetVideoSourceDoViStreamInfo">>,
   <<"SetVideoDoViCodecFourCC", "GetVideoDoViCodecFourCC">>,
   <<"SetVideoHDRStaticMetadataInfo", "GetVideoHDRStaticMetadataInfo">>,
   <<"SetVideoVS10Mode", "GetVideoVS10Mode">>,
   <<"SetVideoLiveBitRate", "GetVideoLiveBitRate">>,
   <<"SetVideoQueueLevel", "GetVideoQueueLevel">>,
   <<"SetVideoQueueDataLevel", "GetVideoQueueDataLevel">>,
   <<"SetVideoFps", "GetVideoFps">>,
   <<"SetVideoDAR", "GetVideoDAR">>,
   <<"SetVideoInterlaced", "GetVideoInterlaced">>,
   <<"SetPixFormats", "GetPixFormats">>,
   <<"SetAudioDecoderName", "GetAudioDecoderName">>,
   <<"SetAudioChannels", "GetAudioChannels">>,
   <<"SetAudioSampleRate", "GetAudioSampleRate">>,
   <<"SetAudioBitsPerSample", "GetAudioBitsPerSample">>,
   <<"SetAudioIsDolbyAtmos", "GetAudioIsDolbyAtmos">>,
   <<"SetAudioDtsXType", "GetAudioDtsXType">>,
   <<"SetAudioLiveBitRate", "GetAudioLiveBitRate">>,
   <<"SetAudioQueueLevel", "GetAudioQueueLevel">>,
   <<"SetAudioQueueDataLevel", "GetAudioQueueDataLevel">>,
   <<"SetNewSpeed", "GetNewSpeed">>,
   <<"SetNewTempo", "GetNewTempo">>,
   <<"SetLevelVQ", "GetLevelVQ">>,
   <<"SetVideoSettings", "GetVideoSettings">>}

GetterPairs ==
  {Pair(p[1], p[2], <<1>>, "ret") : p \in SameNamePairs}
  \cup {Pair("SetVideoDecoderName", "IsVideoHwDecoder", <<2>>, "ret"),
        Pair("SetVideoDimensions", "GetVideoDimensions", <<1, 2>>, "out"),
        Pair("SetRenderClockSync", "IsRenderClockSync", <<1>>, "ret"),
        Pair("UpdateRenderBuffers", "GetRenderBuffers", <<1, 2, 3>>, "out"),
        Pair("SetStateSeeking", "IsSeeking", <<1>>, "ret"),
        Pair("SetStateRealtime", "IsRealtimeStream", <<1>>, "ret"),
        Pair("SetSpeed", "GetNewSpeed", <<1>>, "ret"),
        Pair("SetTempo", "GetNewTempo", <<1>>, "ret"),
        Pair("SetFrameAdvance", "IsFrameAdvance", <<1>>, "ret"),
        Pair("SetPlayTimes", "GetMaxTime", <<4>>, "ret")}

\* what the getter of the pair p gives back when called now
Got(p) ==
  LET S == After(CallOf(p.get, <<>>, <<>>), "t1")
  IN IF p.via = "ret" THEN S.ret ELSE SubSeq(S.out, 1, Len(p.idx))

\* the values the call c passed in the parameters idx
Passed(c, idx) == [i \in 1..Len(idx) |-> c.args[idx[i]]]

\* the getter of the pair p, called right after its setter, gives back what
\* the setter was given
GetsWhatWasSet(p) == last.op = p.set => Got(p) = Passed(last, p.idx)

\* C2 (as stated): for every field that has a setter and a getter, the getter
\* called after Set(v), with no write to the field in between, returns v,
\* whether or not a cache is bound.
C2_GetAfterSet_AsStated ==
  AllIdle => \A p \in GetterPairs : GetsWhatWasSet(p)

\* C2 (amended): the same, except that GetPixFormats after SetPixFormats of an
\* empty vector returns the render formats and not the empty vector.
C2_GetAfterSet ==
  AllIdle =>
    \A p \in GetterPairs :
      /\ ~(p.set = "SetPixFormats" /\ last.args = <<0>>) => GetsWhatWasSet(p)
      /\ (p.set = "SetPixFormats" /\ last.op = p.set /\ last.args = <<0>>)
            => Got(p) = <<RenderFormats>>

\* a setter that has a getter was just called with a value other than the
\* default, with a cache bound
C2_Witness ==
  /\ last.op = "SetPlayTimes"
  /\ last.args[4] = 1
  /\ m_dataCache # 0
  /\ Got(Pair("SetPlayTimes", "GetMaxTime", <<4>>, "ret")) = <<1>>

-----------------------------------------------------------------------------
(* Setters and the cache *)

\* the setters of the attributes, the playback state and the render state
TelemetrySetters ==
  (VideoSetters \ {"SetPixFormats"}) \cup AudioSetters
  \cup {"SetRenderClockSync", "SetGuiRender", "SetVideoRender",
        "SetStateSeeking", "SetStateRealtime", "SetSpeed", "SetNewSpeed",
        "SetTempo", "SetNewTempo", "SetFrameAdvance", "SetPlayTimes"}

\* the bound cache shows, for every parameter of every cache setter, the value
\* on record for it
CacheShowsWanted ==
  \A cs \in DOMAIN hist.want :
    \A pos \in DOMAIN hist.want[cs] :
      hist.want[cs][pos] # Unset =>
        /\ cache[m_dataCache][cs] # <<>>
        /\ cache[m_dataCache][cs][pos] = hist.want[cs][pos]

\* C1 (as stated): every setter of the video, audio, render and playback-state
\* fields, called while a cache is bound, forwards the value it stores to the
\* bound cache; once a setter call has completed, and until a later setter or
\* reset of that field, the cache's value for the field is the value set and
\* never an older one.
C1_SettersMirrored ==
  (AllIdle /\ m_dataCache # 0) =>
     /\ last.op \in TelemetrySetters =>
          \A i \in 1..Arity(last.op) : \E x \in Mirror[last.op] : x[3] = i
     /\ CacheShowsWanted

\* the part of C1 about the fields the cache has: the value the cache shows
\* for a field is the one its setter called last was given
C1_NeverOlder == (AllIdle /\ m_dataCache # 0) => CacheShowsWanted

-----------------------------------------------------------------------------
(* Concurrent setters of disjoint field groups *)

\* the call c having completed, and nothing having written its fields since,
\* the getters of its fields give back what it was given
ReadsBack(c) ==
  \A p \in GetterPairs :
    p.set = c.op => Got(p) = Passed(c, p.idx)

\* the section thread t waits for is held by a thread that can go on
WaitsForRunning(t) ==
  \E u \in Threads \ {t} :
    /\ locks[Statement(t).a].owner = u
    /\ CanStep(u)

\* C3: concurrent Set calls on disjoint field groups never deadlock (a call
\* in progress can take its next step, or waits for a section whose owner can),
\* and once all calls have completed the getter of each field returns the value
\* written by the last setter call on that field.
C3_DisjointGroups ==
  /\ \A t \in Threads : thr[t].op # "" => (CanStep(t) \/ WaitsForRunning(t))
  /\ AllIdle => \A t \in Threads : ReadsBack(thr[t].done)

\* a video setter and an audio setter are in progress at once, each in its
\* section, with a cache bound
C3_Witness ==
  /\ m_dataCache # 0
  /\ thr["t1"].op # "" /\ thr["t2"].op # ""
  /\ {thr["t1"].op, thr["t2"].op} = {"SetVideoPixelFormat", "SetAudioDecoderName"}
  /\ locks["m_videoCodecSection"].owner # NoThread
  /\ locks["m_audioCodecSection"].owner # NoThread

-----------------------------------------------------------------------------
(* SetDataCache and the resets *)

Zeros(n) == [i \in 1..n |-> 0]

\* C4: SetDataCache(new_cache) always sets the gui-render and video-render
\* flags to false and forwards false for both to new_cache, whatever the flags
\* were before.
C4_SetDataCacheRender ==
  (AllIdle /\ last.op = "SetDataCache") =>
     /\ Result(CallOf("GetGuiRender", <<>>, <<>>)) = <<0>>
     /\ Result(CallOf("GetVideoRender", <<>>, <<>>)) = <<0>>
     /\ cache[last.args[1]]["SetGuiRender"] = <<0>>
     /\ cache[last.args[1]]["SetVideoRender"] = <<0>>

\* SetDataCache has just bound a cache at a time when the gui-render flag was
\* true: the cache bound before still shows it true
C4_Witness ==
  /\ last.op = "SetDataCache"
  /\ \E c \in Caches \ {last.args[1]} : cache[c]["SetGuiRender"] = <<1>>

\* the pairs of the video attributes the reset is to restore
VideoPairs == {p \in GetterPairs : p.set \in VideoSetters \ {"SetPixFormats"}}

\* C5 (as stated): after ResetVideoCodecInfo() the getter of every video
\* attribute returns the default, whatever was set before.
C5_ResetVideoDefaults ==
  (AllIdle /\ last.op = "ResetVideoCodecInfo") =>
     \A p \in VideoPairs : Got(p) = Zeros(Len(p.idx))

\* C6 (as stated): after ResetVideoCodecInfo() with a cache bound, and after
\* SetDataCache(c), no video value forwarded before the reset is still visible
\* in the bound cache: what the cache received last through each cache setter
\* the video setters call is the default.  (A cache setter through which the
\* cache has received nothing yet is not counted.)
C6_ResetVideoMirrored ==
  (AllIdle /\ m_dataCache # 0
     /\ last.op \in {"ResetVideoCodecInfo", "SetDataCache"}) =>
     \A s \in CacheSettersOf(VideoSetters) :
        cache[m_dataCache][s] \in {<<>>, Zeros(Len(cache[m_dataCache][s]))}

AudioPairs == {p \in GetterPairs : p.set \in AudioSetters}

\* C7: ResetAudioCodecInfo() restores every audio field to its default and,
\* when a cache is bound, forwards the defaults: afterwards every audio getter
\* and every audio field of the cache holds the default.
C7_ResetAudio ==
  (AllIdle /\ last.op = "ResetAudioCodecInfo") =>
     /\ \A p \in AudioPairs : Got(p) = <<0>>
     /\ m_dataCache # 0 =>
          \A s \in CacheSettersOf(AudioSetters) : cache[m_dataCache][s] = <<0>>

\* ResetAudioCodecInfo has just run with a cache bound, after an audio field
\* had held another value: the other cache still shows that value
C7_Witness ==
  /\ last.op = "ResetAudioCodecInfo"
  /\ m_dataCache # 0
  /\ \E c \in Caches \ {m_dataCache} :
       \E s \in CacheSettersOf(AudioSetters) : cache[c][s] = <<1>>

-----------------------------------------------------------------------------
(* The deinterlace-method registry *)

SupportsNone == Result(CallOf("Supports", <<VS_INTERLACEMETHOD_NONE>>, <<>>)) = <<1>>

\* C8: once UpdateDeinterlacingMethods has been called, with whatever lists,
\* Supports(VS_INTERLACEMETHOD_NONE) is true, and stays true under later
\* UpdateRenderInfo, ResetVideoCodecInfo and UpdateDeinterlacingMethods calls.
C8_SupportsNone == (AllIdle /\ hist.updated) => SupportsNone

\* UpdateDeinterlacingMethods ran with an empty list while the renderer
\* reported none
C8_Witness ==
  /\ last.op = "UpdateDeinterlacingMethods"
  /\ last.list = <<>>
  /\ m_renderInfo = <<>>
  /\ SupportsNone

\* C9 (as stated): for every caller-supplied list without NONE, whatever the
\* renderer reports, NONE is the first supported method after
\* UpdateDeinterlacingMethods.
C9_NoneFirst_AsStated ==
  (AllIdle /\ last.op = "UpdateDeinterlacingMethods"
     /\ ~Contains(last.list, VS_INTERLACEMETHOD_NONE)) =>
     m_deintMethods[1] = VS_INTERLACEMETHOD_NONE

\* C9 (amended): for every caller-supplied list without NONE, NONE is the
\* first supported method after UpdateDeinterlacingMethods when the renderer
\* does not report NONE; when it does, NONE is appended after the caller's
\* methods and is not put at the front.
C9_NoneFirst ==
  (AllIdle /\ last.op = "UpdateDeinterlacingMethods"
     /\ ~Contains(last.list, VS_INTERLACEMETHOD_NONE)) =>
     IF Contains(m_renderInfo, VS_INTERLACEMETHOD_NONE)
     THEN /\ SubSeq(m_deintMethods, 1, Len(last.list)) = last.list
          /\ \E i \in (Len(last.list) + 1)..Len(m_deintMethods) :
               m_deintMethods[i] = VS_INTERLACEMETHOD_NONE
     ELSE m_deintMethods[1] = VS_INTERLACEMETHOD_NONE

\* UpdateDeinterlacingMethods ran with a list without NONE while the renderer
\* reported methods, NONE not among them
C9_Witness ==
  /\ last.op = "UpdateDeinterlacingMethods"
  /\ last.list # <<>>
  /\ ~Contains(last.list, VS_INTERLACEMETHOD_NONE)
  /\ m_renderInfo # <<>>
  /\ ~Contains(m_renderInfo, VS_INTERLACEMETHOD_NONE)
  /\ m_deintMethods[1] = VS_INTERLACEMETHOD_NONE

-----------------------------------------------------------------------------
(* The tempo check *)

Larger(a, b) == IF a >= b THEN a ELSE b

\* C10: IsTempoAllowed(t) is true exactly when t is above the floor 0.75 and
\* below the larger of 1.55 and the configured maximum.
C10_TempoAllowed ==
  tempoIn # <<>> =>
    (tempoOut <=> /\ tempoIn[1] > MinTempoPlatform
                  /\ tempoIn[1] < Larger(MaxTempoPlatform, m_maxTempo))

\* the ceiling itself was asked for, under a configured maximum below 1.55,
\* and was refused
C10_Witness ==
  /\ tempoIn = <<MaxTempoPlatform>>
  /\ m_maxTempo < MaxTempoPlatform
  /\ tempoOut = FALSE

-----------------------------------------------------------------------------
(* Accesses of two threads to one field *)

\* C11 (as stated): all accesses to one field are serialized: no reachable
\* interleaving has one thread writing a field (the seeking flag via
\* SetStateSeeking or ResetVideoCodecInfo, the realtime flag via
\* SetStateRealtime) while another thread reads or writes it (IsSeeking,
\* IsRealtimeStream) without a common lock between them.
C11_FieldsSerialized == ~RaceOn(Members)

\* the render flags the bound cache holds are those the getters return
CacheHoldsRenderFlags ==
  /\ cache[m_dataCache]["SetGuiRender"] = Result(CallOf("GetGuiRender", <<>>, <<>>))
  /\ cache[m_dataCache]["SetVideoRender"] = Result(CallOf("GetVideoRender", <<>>, <<>>))

\* C12 (as stated): SetDataCache is atomic with respect to the state-group
\* setters: in every interleaving of SetDataCache(c) with a concurrent
\* SetGuiRender(g) or SetVideoRender(v), once both calls have completed the
\* gui/video render flag held by c equals the value GetGuiRender() /
\* GetVideoRender() returns.
C12_BindAtomic ==
  (AllIdle /\ m_dataCache # 0 /\ thr["t2"].done.op # "") => CacheHoldsRenderFlags

-----------------------------------------------------------------------------
(* The cache that receives the updates *)

\* the calls a run makes or could make: those of the setters in focus, of the
\* getters of their fields and of the resets, and calls of the methods of the
\* deinterlace-method registry
CallsAround(ops) ==
  UNION {CallsTo(op) :
           op \in ops \cup {p.get : p \in {q \in GetterPairs : q.set \in ops}}
                      \cup {"ResetVideoCodecInfo", "ResetAudioCodecInfo",
                            "SetSwDeinterlacingMethods", "Supports"}}
  \cup {CallOf(op, <<>>, l) :
          op \in {"UpdateRenderInfo", "UpdateDeinterlacingMethods"},
          l \in {<<>>, <<VS_INTERLACEMETHOD_DEINTERLACE>>}}

\* the machine state S differs from the current state in no cache but k
OnlyCacheTouched(S, k) == \A c \in Caches \ {k} : S.cache[c] = cache[c]

\* C13: SetDataCache is the only operation that changes which cache receives
\* updates: every setter, getter, reset, SeekFinished, UpdateRenderInfo,
\* UpdateRenderBuffers and UpdateDeinterlacingMethods leaves the bound cache
\* pointer unchanged and forwards to no cache but the bound one, and
\* SetDataCache(c) binds c and forwards to c only.
C13_OnlySetDataCacheRebinds ==
  AllIdle =>
    /\ \A c \in CallsAround(focus) :
         \E S \in {After(c, "t1")} :
           S.dc = m_dataCache /\ OnlyCacheTouched(S, m_dataCache)
    /\ \A c \in CallsTo("SetDataCache") :
         \E S \in {After(c, "t1")} :
           S.dc = c.args[1] /\ OnlyCacheTouched(S, c.args[1])

\* a cache has been bound after another one had received a value, and a setter
\* has since forwarded another value, to the new one only
C13_Witness ==
  /\ m_dataCache # 0
  /\ last.op \in DOMAIN Mirror
  /\ last.args[1] = 1
  /\ \E c \in Caches \ {m_dataCache} :
       \E cs \in MirrorSetters[last.op] :
         /\ cache[c][cs] # <<>>
         /\ cache[c][cs] # cache[m_dataCache][cs]
         /\ cache[m_dataCache][cs][1] = 1

-----------------------------------------------------------------------------
(* The hardware poll slot *)

\* thread t has set the access flag and has not cleared it yet: it is polling
\* the device or changing it
InFlight(t) ==
  /\ thr[t].op \in {"PollFrame", "SetPollDevice"}
  /\ Statement(t).k \in {"return", "store", "clear"}

\* C14: the hardware poll slot is guarded by an access flag: across all
\* threads calling PollFrame / SetPollDevice, at most one poll is in flight at
\* any time.
C14_OnePollInFlight == Cardinality({t \in Threads : InFlight(t)}) <= 1

\* a thread is polling while the other one waits for the flag
C14_Witness ==
  \E t \in Threads : \E u \in Threads \ {t} :
    /\ thr[t].op = "PollFrame" /\ Statement(t).k = "return"
    /\ thr[u].op = "PollFrame" /\ Statement(u).k = "again"

-----------------------------------------------------------------------------
(* The merge of the caller's methods with the renderer's *)

Elems(seq) == {seq[i] : i \in 1..Len(seq)}

Occurrences(seq, v) == Cardinality({i \in 1..Len(seq) : seq[i] = v})

\* Supports(x) is true for every method of the two lists
SupportsBoth(callers, renderers) ==
  \A x \in Elems(callers) \cup Elems(renderers) :
    Result(CallOf("Supports", <<x>>, <<>>)) = <<1>>

\* from the position after `from` on, list holds the caller's methods in their
\* order, and after them once each method of the renderer that is not one of
\* the caller's, and nothing else
MergedAfter(from, list, callers, renderers) ==
  /\ Len(list) >= from + Len(callers)
  /\ SubSeq(list, from + 1, from + Len(callers)) = callers
  /\ \A x \in Elems(renderers) \ Elems(callers) :
       /\ Occurrences(list, x) = 1
       /\ \E i \in (from + Len(callers) + 1)..Len(list) : list[i] = x
  /\ Len(list) = from + Len(callers)
                 + Cardinality(Elems(renderers) \ Elems(callers))

\* C15 (as stated): UpdateDeinterlacingMethods(methods) merges without loss or
\* duplication: afterwards Supports(m) is true for every m of the caller's
\* list and of the renderer's, the caller's elements appear first in their
\* original order, and each method of the renderer that is not in the caller's
\* list is appended exactly once.
C15_Merge_AsStated ==
  (AllIdle /\ last.op = "UpdateDeinterlacingMethods") =>
     /\ SupportsBoth(last.list, m_renderInfo)
     /\ MergedAfter(0, m_deintMethods, last.list, m_renderInfo)

\* C15 (amended): the same, except that when neither list has NONE, NONE is
\* put in front of the caller's elements.
C15_Merge ==
  (AllIdle /\ last.op = "UpdateDeinterlacingMethods") =>
     /\ SupportsBoth(last.list, m_renderInfo)
     /\ IF VS_INTERLACEMETHOD_NONE \in Elems(last.list) \cup Elems(m_renderInfo)
        THEN MergedAfter(0, m_deintMethods, last.list, m_renderInfo)
        ELSE /\ m_deintMethods # <<>>
             /\ m_deintMethods[1] = VS_INTERLACEMETHOD_NONE
             /\ MergedAfter(1, m_deintMethods, last.list, m_renderInfo)

\* UpdateDeinterlacingMethods ran with a method the renderer reports too,
\* while the renderer reported one more method, twice
C15_Witness ==
  /\ last.op = "UpdateDeinterlacingMethods"
  /\ last.list = <<VS_INTERLACEMETHOD_DEINTERLACE>>
  /\ m_renderInfo = <<VS_INTERLACEMETHOD_DEINTERLACE_HALF,
                      VS_INTERLACEMETHOD_DEINTERLACE_HALF>>
  /\ m_deintMethods = <<VS_INTERLACEMETHOD_NONE, VS_INTERLACEMETHOD_DEINTERLACE,
                        VS_INTERLACEMETHOD_DEINTERLACE_HALF>>

-----------------------------------------------------------------------------
(* The two method lists under concurrent callers *)

\* C16: all accesses to the list of supported deinterlace methods and to the
\* render info's method list are serialized: in no interleaving of
\* UpdateRenderInfo, UpdateDeinterlacingMethods, ResetVideoCodecInfo and
\* Supports does one thread modify either list while another reads or
\* modifies it without a common lock.
C16_ListsSerialized == ~RaceOn({"m_deintMethods", "m_renderInfo"})

-----------------------------------------------------------------------------
(* Current and pending speed and tempo *)

SpeedTempoFields == {"m_speed", "m_newSpeed", "m_tempo", "m_newTempo"}

\* the fields the claim lets each of the four setters write
SetBy(op) ==
  CASE op = "SetSpeed" -> {"m_speed", "m_newSpeed"}
    [] op = "SetNewSpeed" -> {"m_newSpeed"}
    [] op = "SetTempo" -> {"m_tempo", "m_newTempo"}
    [] op = "SetNewTempo" -> {"m_newTempo"}

\* C17: current and pending speed and tempo are tracked separately:
\* SetSpeed(s) sets the current and the pending speed to s, SetTempo(t) the
\* current and the pending tempo to t, SetNewSpeed(s) only the pending speed
\* and SetNewTempo(t) only the pending tempo, leaving the other three of the
\* four values unchanged.
C17_PendingSeparate ==
  AllIdle =>
    \A c \in SetterCalls(SpeedTempoSetters) : \E S \in {After(c, "t1")} :
      \A f \in SpeedTempoFields :
        S.m[f] = IF f \in SetBy(c.op) THEN c.args[1] ELSE m[f]

\* SetNewTempo has just set a pending tempo that differs from the current
\* one, the pending speed differing from the current speed as well
C17_Witness ==
  /\ last.op = "SetNewTempo"
  /\ m["m_newTempo"] = 1 /\ m["m_tempo"] = 0
  /\ m["m_newSpeed"] = 1 /\ m["m_speed"] = 0

\* the (tempo, speed) pair the aggregator's getters of the pending values give
PendingPair ==
  Result(CallOf("GetNewTempo", <<>>, <<>>))
  \o Result(CallOf("GetNewSpeed", <<>>, <<>>))

\* C18: with a cache bound, after any sequence of SetSpeed, SetNewSpeed,
\* SetTempo and SetNewTempo calls the (tempo, speed) pair forwarded to the
\* cache last is (GetNewTempo(), GetNewSpeed()); a call that sets only the
\* speed never reverts the cache's tempo to an older one, and vice versa.
C18_CacheShowsPending ==
  (AllIdle /\ m_dataCache # 0 /\ last.op \in SpeedTempoSetters) =>
     cache[m_dataCache]["SetSpeed"] = PendingPair

-----------------------------------------------------------------------------
(* The cache bound by SetDataCache and the attributes that are not video's *)

\* the setters of the mirrored attributes that are not of the video group
NonVideoMirrored ==
  AudioSetters \cup {"SetRenderClockSync", "SetFrameAdvance", "SetPlayTimes"}

\* the value the bound cache has received for the attribute the getter of the
\* pair p reads is the one the getter returns
CacheAgrees(p) ==
  \A x \in Mirror[p.set] :
    (x[3] = p.idx[1] /\ cache[m_dataCache][x[1]] # <<>>) =>
       <<cache[m_dataCache][x[1]][x[2]]>> = Got(p)

\* C19: in a single-threaded run, whenever a cache is bound, every mirrored
\* attribute of that cache that is not a video attribute equals the
\* aggregator's own current value, in particular right after SetDataCache has
\* bound another cache than the one that received the earlier updates.
C19_BoundCacheCurrent ==
  (AllIdle /\ m_dataCache # 0) =>
     \A p \in GetterPairs :
       (p.set \in NonVideoMirrored /\ p.via = "ret") => CacheAgrees(p)

-----------------------------------------------------------------------------
(* What the two resets leave alone *)

\* the members the methods ops store to
FieldsOf(ops) ==
  UNION {{prog[i].a : i \in {j \in 1..Len(prog) : prog[j].k = "store"}} :
         prog \in {Handlers[op] : op \in ops}}

AudioFields == FieldsOf(AudioSetters)

VideoFields == FieldsOf(VideoSetters)

\* the members of the playback state and of the render state
StateFields == FieldsOf(PlaybackSetters \cup RenderSetters)

\* the machine state S differs from the current state in none of the members
\* fields and in none of the values the bound cache got from the setters ops
LeftAlone(S, fields, ops) ==
  /\ \A f \in fields : S.m[f] = m[f]
  /\ S.dc = m_dataCache
  /\ m_dataCache # 0 =>
       \A cs \in CacheSettersOf(ops) :
         S.cache[m_dataCache][cs] = cache[m_dataCache][cs]

\* C20: ResetVideoCodecInfo() and ResetAudioCodecInfo() each modify only the
\* fields of their own group: ResetAudioCodecInfo leaves every video,
\* playback-state and render field unchanged, ResetVideoCodecInfo every audio,
\* playback-state (speed, tempo, seeking flag, realtime flag, play times) and
\* render field, in the aggregator and in the bound cache.
C20_ResetsOwnGroup ==
  AllIdle =>
    /\ LeftAlone(After(CallOf("ResetAudioCodecInfo", <<>>, <<>>), "t1"),
                 VideoFields \cup StateFields,
                 VideoSetters \cup PlaybackSetters \cup RenderSetters)
    /\ LeftAlone(After(CallOf("ResetVideoCodecInfo", <<>>, <<>>), "t1"),
                 AudioFields \cup StateFields,
                 AudioSetters \cup PlaybackSetters \cup RenderSetters)

-----------------------------------------------------------------------------
(* The render flags are forwarded on change *)

RenderFlagSetters == {"SetGuiRender", "SetVideoRender"}

\* the member a render-flag setter stores to
FlagOf(op) ==
  IF op = "SetGuiRender" THEN "m_renderGuiLayer" ELSE "m_renderVideoLayer"

\* the machine state after the call c ran alone, the record of what the bound
\* cache got from the cache setter of the same name having been erased before:
\* the record is empty afterwards exactly when c wrote nothing to the cache
AfterErased(c) ==
  Run(Handlers[c.op],
      [Machine(Registers(c.args, c.list))
         EXCEPT !.cache[m_dataCache][c.op] = <<>>],
      "t1")

\* C21: SetGuiRender(g) and SetVideoRender(v) always store the new flag but
\* forward it to the bound cache only when it differs from the stored one:
\* repeating a call with the same value writes nothing to the cache, and in a
\* single-threaded run with a cache bound the cache's gui and video render
\* flags equal GetGuiRender() and GetVideoRender() after every operation.
C21_RenderFlagsOnChange ==
  (AllIdle /\ m_dataCache # 0) =>
     /\ \A c \in SetterCalls(RenderFlagSetters) : \E S \in {AfterErased(c)} :
          /\ S.m[FlagOf(c.op)] = c.args[1]
          /\ S.cache[m_dataCache][c.op] =
               IF m[FlagOf(c.op)] = c.args[1] THEN <<>> ELSE c.args
     /\ CacheHoldsRenderFlags

\* SetGuiRender(true) has completed with a cache bound that shows the flag:
\* the next SetGuiRender(true) repeats it
C21_Witness ==
  /\ AllIdle /\ m_dataCache # 0
  /\ last.op = "SetGuiRender" /\ last.args = <<1>>
  /\ m["m_renderGuiLayer"] = 1
  /\ cache[m_dataCache]["SetGuiRender"] = <<1>>

-----------------------------------------------------------------------------
(* The registry of factories under two threads *)

\* the registry made of the one registration of the call with arguments args
OnlyEntry(args) == Put(<<>>, args[1], args[2])

HoldsCreateSection(t) == locks["createSection"].owner = t

\* C22: the process-control registry holds at most one factory: after any
\* sequence of RegisterProcessControl(id, f) calls, with equal or different
\* ids, from any threads, the registry has exactly one entry, that of the call
\* that entered createSection last; every earlier registration is discarded.
\* (A call about to leave the section is the one that entered it last; with
\* the section free, the registry is that of a completed call, and is empty
\* only when none has completed.)
C22_OneFactory ==
  /\ \A t \in Threads :
       (thr[t].op = "RegisterProcessControl" /\ Statement(t).k = "unlock") =>
          m["m_processControls"] = OnlyEntry(thr[t].regs.args)
  /\ locks["createSection"].owner = NoThread =>
       IF \A t \in Threads : thr[t].done = NoCall
       THEN m["m_processControls"] = <<>>
       ELSE \E t \in Threads :
              /\ thr[t].done # NoCall
              /\ m["m_processControls"] = OnlyEntry(thr[t].done.args)

\* both threads have registered, under different ids, and createSection is
\* free: the registry holds the registration of thread t2 alone
C22_Witness ==
  /\ AllIdle
  /\ thr["t1"].done.op = "RegisterProcessControl"
  /\ thr["t2"].done.op = "RegisterProcessControl"
  /\ thr["t1"].done.args[1] # thr["t2"].done.args[1]
  /\ m["m_processControls"] = OnlyEntry(thr["t2"].done.args)

\* what CreateInstance is to return for the registry map: the instance of the
\* first factory, in the order of the map, that gives one, or else a
\* default-constructed CProcessInfo
Created(map) ==
  LET giving == {k \in DOMAIN map : map[k] # 0}
  IN IF giving = {} THEN DefaultProcessInfo
     ELSE map[CHOOSE k \in giving : \A x \in giving : k <= x]

\* thread t is in CreateInstance, past its first statement
Creating(t) == thr[t].op = "CreateInstance" /\ thr[t].regs.ip > 1

\* C23: CreateInstance() never returns null: it returns the instance of the
\* first registered factory whose result is not null, and a
\* default-constructed CProcessInfo when no factory is registered or every
\* factory returns null; it runs under the section RegisterProcessControl
\* runs under, so it never sees a registry that is cleared and not yet
\* refilled.
C23_CreateInstance ==
  \A t \in Threads : Creating(t) =>
    /\ \A u \in Threads \ {t} :
         thr[u].op = "RegisterProcessControl" => Statement(u).k = "lock"
    /\ thr[t].regs.ip = Len(Handlers["CreateInstance"]) =>
         /\ thr[t].regs.ret # <<0>>
         /\ thr[t].regs.ret = <<Created(m["m_processControls"])>>

\* a thread is about to return from CreateInstance with the instance of the
\* registered factory while the other waits to register another factory
C23_Witness ==
  \E t \in Threads : \E u \in Threads \ {t} :
    /\ Creating(t)
    /\ Statement(t).k = "unlock"
    /\ thr[t].regs.ret = <<1>>
    /\ thr[u].op = "RegisterProcessControl"
    /\ thr[u].regs.args[2] = 0

-----------------------------------------------------------------------------
(* Getters of several values under concurrent setters *)

\* the tuples of values the getter of the pair p may give: the one of the
\* construction and of the reset, and the ones the threads passed to the
\* setter calls they completed last
WrittenWhole(p) ==
  {[i \in 1..Len(p.idx) |-> 0]}
  \cup {thr[u].done.args : u \in {v \in Threads : thr[v].done.op = p.set}}

\* thread t is about to leave the getter of the pair p
Leaving(t, p) ==
  thr[t].op = p.get /\ thr[t].regs.ip = Len(Handlers[p.get])

\* C24: the values written by one setter are read as a whole: under any
\* interleaving of SetVideoDimensions and ResetVideoCodecInfo calls,
\* GetVideoDimensions gives a (width, height) pair written by a single call,
\* never the width of one call with the height of another, and
\* GetRenderBuffers a (queued, discard, free) triple written by a single
\* UpdateRenderBuffers call.
C24_ReadWhole ==
  \A p \in {q \in GetterPairs : q.via = "out"} : \A t \in Threads :
    Leaving(t, p) =>
      SubSeq(thr[t].regs.out, 1, Len(p.idx)) \in WrittenWhole(p)

\* a thread is about to leave GetVideoDimensions with the pair (1, 0) the
\* other thread set, having itself set the pair (0, 1) before
C24_Witness ==
  \E t \in Threads : \E u \in Threads \ {t} :
    /\ thr[t].op = "GetVideoDimensions" /\ Statement(t).k = "unlock"
    /\ thr[t].regs.out = <<1, 0, 0>>
    /\ thr[t].done.op = "SetVideoDimensions" /\ thr[t].done.args = <<0, 1>>
    /\ thr[u].done.op = "SetVideoDimensions" /\ thr[u].done.args = <<1, 0>>

-----------------------------------------------------------------------------
(* Nested sections *)

Held(t) == {s \in Sections : locks[s].owner = t}

\* thread t, about to enter a section while it holds one, is UpdateRenderInfo
\* entering m_videoCodecSection in m_renderSection, or UpdateDeinterlacingMethods
\* entering m_videoCodecSection again
NestsAsStated(t) ==
  (Statement(t).k = "lock" /\ Held(t) # {}) =>
     /\ Statement(t).a = "m_videoCodecSection"
     /\ \/ thr[t].op = "UpdateRenderInfo" /\ Held(t) = {"m_renderSection"}
        \/ /\ thr[t].op \in {"UpdateDeinterlacingMethods",
                             "SetSwDeinterlacingMethods"}
           /\ Held(t) = {"m_videoCodecSection"}

\* thread t can execute its statement, or waits for a section whose owner can
GoesOn(t) ==
  \/ CanStep(t)
  \/ Statement(t).k = "lock" /\ WaitsForRunning(t)

\* the sections are nested as the claim says, in every call in progress
C25_NestedAsStated ==
  \A t \in Threads : thr[t].op # "" => NestsAsStated(t)

=============================================================================
